---- MODULE Spec2Model ----
(***************************************************************************)
(* Retrieval core of ollama-spielwiese (src/src/preload.js,                *)
(* src/src/database.js, src/src/renderer.js): the SQLite document/chunk/   *)
(* graph tables, the two FAISS stores (in memory and on disk) and the      *)
(* active embedder, driven by the operations the preload script exposes.   *)
(*                                                                         *)
(* An operation is a JavaScript async function.  It runs without           *)
(* interruption from one await of an external service (an embedding or an  *)
(* extraction HTTP call) to the next, so each action below is one such     *)
(* run-to-await segment of one in-flight call.  Awaits of file-system      *)
(* work (FaissStore.load, FaissStore.save) are taken together with the     *)
(* segment that issues them.                                               *)
(***************************************************************************)
EXTENDS Integers, Sequences, FiniteSets, TLC

\* ------------------------------------------------------------------ bounds
MaxChunks == 2      \* chunks produced by one readAndSplit
MaxChunkId == 3     \* chunk rows ever inserted (AUTOINCREMENT never reuses)
MaxDocId == 3       \* document rows ever inserted
MaxConcCalls == 3   \* calls and events of one run with overlapping calls
MaxCalls == 4       \* calls and events of one run with calls one after another

TaskIds == {1, 2}   \* slots for calls in flight (the sequential specification uses slot 1)

Sources == {"/a.pdf", "/b.pdf"}

\* A model name is its text cut at the tag: <<"bge-m3", ":latest">> is
\* 'bge-m3:latest'.
DefaultModel == <<"bge-m3">>
ModelNames == {<<"bge-m3">>, <<"bge-m3", ":latest">>, <<"nomic-embed-text">>}

\* preload.js:28-31  modelName.replace(/:latest$/, '')
normalizeModelName(modelName) ==
  IF modelName = <<>> THEN <<>>
  ELSE IF modelName[Len(modelName)] = ":latest"
       THEN SubSeq(modelName, 1, Len(modelName) - 1)
       ELSE modelName

\* The embedding service: the vector length is fixed by the model, whatever
\* tag the name carries (bge-m3 gives 1024 floats, nomic-embed-text 768).
Dim(modelName) ==
  IF normalizeModelName(modelName) = <<"nomic-embed-text">> THEN 768 ELSE 1024

\* Outcomes of one call of the embedding service.  "error500" is a failure
\* whose message the catch block of saveChunksToFaiss recognises ('Internal
\* Server Error', '500', 'embedding'); "fetchFailed" is one it does not
\* (the service is not reachable).
EmbedOutcomes == {"ok", "error500", "fetchFailed"}

\* What extractFromChunk can return for a chunk: null (the model call or the
\* parse failed), or a validated {entities, relationships}.
Kant == [name |-> "Kant", type |-> "PERSON"]
Korsgaard == [name |-> "Korsgaard", type |-> "PERSON"]
Extractions ==
  {[ok |-> FALSE, entities |-> <<>>, relationships |-> <<>>],
   [ok |-> TRUE, entities |-> <<>>, relationships |-> <<>>],
   [ok |-> TRUE, entities |-> <<Kant>>, relationships |-> <<>>],
   [ok |-> TRUE, entities |-> <<Korsgaard, Kant>>,
    relationships |-> <<[source |-> "Korsgaard", target |-> "Kant",
                         type |-> "RELATED_TO"]>>]}

\* preload.js:364
BATCH_SIZE == 8

\* sql.js opens every connection with SQLite's default, foreign_keys = OFF,
\* and database.js never issues PRAGMA foreign_keys = ON: the ON DELETE
\* CASCADE clauses of createTables are not enforced.
foreign_keys == FALSE

\* ------------------------------------------------------------------ state
VARIABLES
  embedder,            \* embedder.model
  vectorStore,         \* in-memory chunk FaissStore (present = FALSE: null)
  faiss_store,         \* VECTOR_DIR/faiss_store on disk
  entityVectorStore,   \* in-memory entity FaissStore
  entity_faiss_store,  \* VECTOR_DIR/entity_faiss_store on disk
  db,                  \* the sql.js database: tables and AUTOINCREMENT counters
  documents_db,        \* VECTOR_DIR/documents.db on disk, as db.save() wrote it
  otherWindow,         \* the second BrowserWindow's own preload.js state
  tasks,               \* the calls in flight, each at its await
  ret,                 \* what the last finished call returned
  calls,               \* calls and events so far
  called,              \* the kinds of call and event so far
  isExtracting,        \* manage-rag.js: an extraction is shown as running
  shouldStopExtraction, \* manage-rag.js: the user asked to stop
  server               \* main process: server.js and the ports of the machine

vars == <<embedder, vectorStore, faiss_store, entityVectorStore,
          entity_faiss_store, db, documents_db, otherWindow, tasks, ret,
          calls, called, isExtracting, shouldStopExtraction, server>>

NoStore == [present |-> FALSE, emb |-> <<>>, dim |-> 0, docs |-> {}]

\* FaissStore.fromDocuments(docs, embedder): every text is embedded again by
\* the embedder passed in; the metadata is kept.
fromDocuments(docs, emb) ==
  [present |-> TRUE, emb |-> emb, dim |-> Dim(emb),
   docs |-> {[x EXCEPT !.by = emb] : x \in docs}]

\* FaissStore.load(path, embedder): the index file keeps its dimension and
\* vectors; the store embeds later texts and queries with the embedder given.
load(disk, emb) == [disk EXCEPT !.emb = emb]

\* store.addDocuments(docs): the store's own embedder makes the vectors.
addDocuments(store, docs) ==
  [store EXCEPT !.docs = @ \cup {[x EXCEPT !.by = store.emb] : x \in docs}]

\* addVectors / similaritySearchVectorWithScore throw '... the number of
\* dimensions' when the embedder's vectors do not fit the index.
dimensionsMismatch(store) == Dim(store.emb) # store.dim

EmptyDb ==
  [documents |-> {}, chunks |-> {}, entities |-> {}, relationships |-> {},
   entity_mentions |-> {}, relationship_mentions |-> {},
   entity_embeddings |-> {},
   seq |-> [documents |-> 0, chunks |-> 0, entities |-> 0, relationships |-> 0]]

NoCapture == [held |-> FALSE, live |-> FALSE, store |-> NoStore]

LiveCapture == [held |-> TRUE, live |-> TRUE, store |-> NoStore]

\* A call in flight: its arguments and the locals it holds across an await.
\* capt is the FaissStore object the call holds a reference to: the one the
\* global vectorStore still names (live), or one that was replaced meanwhile.
IdleTask ==
  [pc |-> "idle", op |-> "none", source |-> "", n |-> 0, model |-> <<>>,
   name |-> <<>>, force |-> FALSE, docId |-> 0, existed |-> FALSE,
   chunkIds |-> {}, docs |-> {}, emb |-> <<>>, capt |-> NoCapture,
   pending |-> {}, batchIndex |-> 0, skipped |-> 0, again |-> FALSE,
   successful |-> {}, failed |-> {},
   \* extractAllUnprocessed: the documents of the batch, the loop's i (from 1),
   \* and whether stopExtraction ran since the batch began
   isBatchMode |-> FALSE, unprocessedDocs |-> <<>>, i |-> 0,
   stopRequested |-> FALSE]

NoRet == [op |-> "none", result |-> "none", source |-> "", n |-> 0,
          model |-> <<>>, name |-> <<>>, force |-> FALSE, existed |-> FALSE,
          sources |-> {}, existingModels |-> {}, skipped |-> 0,
          successful |-> {}, failed |-> {},
          entityIds |-> {}, maxRelated |-> 0,
          response |-> <<>>, searchQuery |-> <<>>,
          chunkId |-> 0, llmOutput |-> [entities |-> <<>>, relationships |-> <<>>],
          port |-> 0,
          query |-> <<>>, k |-> 0, results |-> <<>>, mode |-> "",
          useChunkRAG |-> FALSE, useGraphRAG |-> FALSE,
          parts |-> [embedding |-> [failed |-> FALSE, results |-> <<>>],
                     fullText |-> [failed |-> FALSE, results |-> <<>>],
                     graph |-> [failed |-> FALSE, results |-> <<>>]]]

MkRet(task, result) ==
  [NoRet EXCEPT !.op = task.op, !.result = result, !.source = task.source,
                !.n = task.n, !.model = task.model, !.name = task.name,
                !.force = task.force, !.existed = task.existed,
                !.skipped = task.skipped, !.successful = task.successful,
                !.failed = task.failed]

Idle == \A t \in DOMAIN tasks : tasks[t].pc = "idle"

\* ------------------------------------------------------------- database.js
ChunkIdsOf(d, docIds) == {c.id : c \in {x \in d.chunks : x.document_id \in docIds}}

\* DELETE FROM chunks WHERE id IN ids (mentions go with them only under
\* foreign_keys = ON)
deleteChunkRows(d, ids) ==
  [d EXCEPT
     !.chunks = {c \in @ : c.id \notin ids},
     !.entity_mentions =
        IF foreign_keys THEN {m \in @ : m.chunk_id \notin ids} ELSE @,
     !.relationship_mentions =
        IF foreign_keys THEN {m \in @ : m.chunk_id \notin ids} ELSE @]

deleteChunksByDocumentId(d, documentId) ==
  deleteChunkRows(d, ChunkIdsOf(d, {documentId}))

\* DELETE FROM documents WHERE id IN docIds
deleteDocumentRows(d, docIds) ==
  LET d1 == IF foreign_keys THEN deleteChunkRows(d, ChunkIdsOf(d, docIds)) ELSE d
  IN [d1 EXCEPT !.documents = {x \in @ : x.id \notin docIds}]

getDocumentIdsBySource(d, sourcePath) ==
  {x.id : x \in {y \in d.documents : y.source = sourcePath}}

getChunkIdsByDocumentIds(d, documentIds) == ChunkIdsOf(d, documentIds)

\* deleteDocumentBySource removing the row getDocumentIdsBySource lists first
deleteDocumentBySource_firstRowOnly(d, sourcePath) ==
  LET docIds == getDocumentIdsBySource(d, sourcePath)
  IN IF docIds = {} THEN d
     ELSE deleteDocumentRows(d, {CHOOSE x \in docIds : \A y \in docIds : x <= y})

deleteDocumentBySource(d, sourcePath) ==
  deleteDocumentRows(d, getDocumentIdsBySource(d, sourcePath))

\* insertDocument without the UNIQUE(source, embedding_model) constraint: the
\* INSERT always succeeds
insertDocument_withoutUnique(d, source, embeddingModel) ==
  LET docId == d.seq.documents + 1
  IN [db |-> [d EXCEPT
                !.documents = @ \cup
                   {[id |-> docId, source |-> source,
                     embedding_model |-> embeddingModel]},
                !.seq.documents = docId],
      id |-> docId, existed |-> FALSE]

insertDocument(d, source, embeddingModel) ==
  LET old == {x \in d.documents :
                x.source = source /\ x.embedding_model = embeddingModel}
  IN IF old # {}
     THEN LET docId == (CHOOSE x \in old : TRUE).id
          IN [db |-> deleteChunksByDocumentId(d, docId), id |-> docId,
              existed |-> TRUE]
     ELSE LET docId == d.seq.documents + 1
          IN [db |-> [d EXCEPT
                        !.documents = @ \cup
                           {[id |-> docId, source |-> source,
                             embedding_model |-> embeddingModel]},
                        !.seq.documents = docId],
              id |-> docId, existed |-> FALSE]

\* the loop of insertChunk calls of saveChunksToFaiss (preload.js:617-627)
insertChunks(d, documentId, n) ==
  [d EXCEPT
     !.chunks = @ \cup
        {[id |-> d.seq.chunks + i, document_id |-> documentId,
          chunk_index |-> i - 1] : i \in 1..n},
     !.seq.chunks = @ + n]

getStoredSources(d) == {x.source : x \in d.documents}

cleanupOrphanedGraphData(d) ==
  LET gone == {e.id : e \in {x \in d.entities :
                 \A m \in d.entity_mentions : m.entity_id # x.id}}
      d1 == [d EXCEPT
               !.entities = {e \in @ : e.id \notin gone},
               !.relationships =
                  IF foreign_keys
                  THEN {r \in @ : r.source_entity_id \notin gone
                                  /\ r.target_entity_id \notin gone}
                  ELSE @,
               !.entity_embeddings =
                  IF foreign_keys THEN {r \in @ : r.entity_id \notin gone} ELSE @]
      goneRel == {r.id : r \in {x \in d1.relationships :
                    \A m \in d1.relationship_mentions : m.relationship_id # x.id}}
  IN [d1 EXCEPT
        !.relationships = {r \in @ : r.id \notin goneRel},
        !.relationship_mentions =
           IF foreign_keys THEN {m \in @ : m.relationship_id \notin goneRel} ELSE @]

\* database.js:459-495 (the description is not kept in the model)
insertEntity(d, name, type) ==
  LET old == {e \in d.entities : e.name = name /\ e.type = type}
  IN IF old # {}
     THEN [db |-> d, id |-> (CHOOSE e \in old : TRUE).id]
     ELSE LET entityId == d.seq.entities + 1
          IN [db |-> [d EXCEPT
                        !.entities = @ \cup
                           {[id |-> entityId, name |-> name, type |-> type]},
                        !.seq.entities = entityId],
              id |-> entityId]

\* renderer.js:1520-1526: storeExtraction passes 1.0 as weight. Weights
\* are counted in tenths.
storedWeight == 10

\* database.js:506-542 (with weight 1.0 the row that exists is left as it is)
insertRelationship(d, sourceEntityId, targetEntityId, relationshipType) ==
  LET old == {r \in d.relationships :
                /\ r.source_entity_id = sourceEntityId
                /\ r.target_entity_id = targetEntityId
                /\ r.relationship_type = relationshipType}
  IN IF old # {}
     THEN [db |-> d, id |-> (CHOOSE r \in old : TRUE).id]
     ELSE LET relationshipId == d.seq.relationships + 1
          IN [db |-> [d EXCEPT
                        !.relationships = @ \cup
                           {[id |-> relationshipId,
                             source_entity_id |-> sourceEntityId,
                             target_entity_id |-> targetEntityId,
                             relationship_type |-> relationshipType,
                             weight |-> storedWeight]},
                        !.seq.relationships = relationshipId],
              id |-> relationshipId]

\* database.js:552-570: UNIQUE(entity_id, chunk_id), a second insert is ignored
insertEntityMention(d, entityId, chunkId) ==
  [d EXCEPT !.entity_mentions = @ \cup {[entity_id |-> entityId, chunk_id |-> chunkId]}]

\* database.js:580-598
insertRelationshipMention(d, relationshipId, chunkId) ==
  [d EXCEPT !.relationship_mentions =
              @ \cup {[relationship_id |-> relationshipId, chunk_id |-> chunkId]}]

\* renderer.js:1496-1506: entities in order, entityMap from name to id
RECURSIVE storeEntities(_, _, _, _, _)
storeEntities(d, chunkId, ents, i, entityMap) ==
  IF i > Len(ents) THEN [db |-> d, entityMap |-> entityMap]
  ELSE LET ins == insertEntity(d, ents[i].name, ents[i].type)
           d1 == insertEntityMention(ins.db, ins.id, chunkId)
           map1 == [nm \in DOMAIN entityMap \cup {ents[i].name} |->
                      IF nm = ents[i].name THEN ins.id ELSE entityMap[nm]]
       IN storeEntities(d1, chunkId, ents, i + 1, map1)

\* renderer.js:1509-1531
RECURSIVE storeRelationships(_, _, _, _, _)
storeRelationships(d, chunkId, rels, i, entityMap) ==
  IF i > Len(rels) THEN d
  ELSE IF rels[i].source \notin DOMAIN entityMap
          \/ rels[i].target \notin DOMAIN entityMap
       THEN storeRelationships(d, chunkId, rels, i + 1, entityMap)
       ELSE LET ins == insertRelationship(d, entityMap[rels[i].source],
                                          entityMap[rels[i].target], rels[i].type)
                d1 == insertRelationshipMention(ins.db, ins.id, chunkId)
            IN storeRelationships(d1, chunkId, rels, i + 1, entityMap)

\* renderer.js:1484-1544
storeExtraction(d, chunkId, extraction) ==
  LET ents == storeEntities(d, chunkId, extraction.entities, 1, <<>>)
  IN storeRelationships(ents.db, chunkId, extraction.relationships, 1,
                        ents.entityMap)

\* ---------------------------------------------------------------- server.js
\* server.js:7-8.  serverPort is null until a listen succeeded; a port is a
\* positive number and null is written 0.
PORT == 3000
null == 0
DefaultMaxRetries == 10

\* The ports another process may hold when the application starts.
PortsInUse == PORT..(PORT + DefaultMaxRetries + 1)

\* What app.listen(port) ends in: the 'listening' event, or an 'error' event
\* with the code EADDRINUSE when another process holds the port, or one with
\* another code (EACCES) whatever the port.
ListenOutcomes(inUse, port) ==
  IF port \in inUse THEN {"EADDRINUSE", "EACCES"} ELSE {"listening", "EACCES"}

\* server.js:110: the error handler starts the next attempt
retries_unbounded(code, maxRetries) == code = "EADDRINUSE"

retries(code, maxRetries) == code = "EADDRINUSE" /\ maxRetries > 0

\* server.js:104-126: startServer(port, maxRetries) up to the return of
\* app.listen; attempts counts the calls of startServer, bound is the port
\* the process listens on.
startServer(sv, port, maxRetries) ==
  [sv EXCEPT !.pc = "listen", !.port = port, !.maxRetries = maxRetries,
             !.attempts = @ + 1]

\* The main process after `require('./server')` (main.js:11-16): the module
\* has called startServer(PORT), no window exists yet.
ServerLoaded(inUse) ==
  startServer([pc |-> "none", port |-> null, maxRetries |-> 0, attempts |-> 0,
               serverPort |-> null, bound |-> null, inUse |-> inUse,
               mainWindow |-> FALSE, notified |-> FALSE],
              PORT, DefaultMaxRetries)

\* server.js:105-107: the 'listening' callback
listening(sv) ==
  [sv EXCEPT !.pc = "listening", !.bound = sv.port, !.serverPort = sv.port]

\* server.js:109-121: the 'error' handler
onError(sv, code) ==
  IF retries(code, sv.maxRetries)
  THEN startServer(sv, sv.port + 1, sv.maxRetries - 1)
  ELSE [sv EXCEPT !.pc = "failed", !.notified = sv.mainWindow]

\* The server of the other specifications: no other process held port 3000,
\* the window is open.
ServerStarted == [listening(ServerLoaded({})) EXCEPT !.mainWindow = TRUE]

\* ------------------------------------------------------------------- Init
\* A BrowserWindow that is not open has no renderer and no preload.js state.
ClosedWindow ==
  [open |-> FALSE, embedder |-> DefaultModel, vectorStore |-> NoStore,
   entityVectorStore |-> NoStore, db |-> EmptyDb]

\* A fresh installation once the preload script has run: loadVectorStore()
\* has initialised the database and found no store on disk.
Init ==
  /\ embedder = DefaultModel
  /\ vectorStore = NoStore
  /\ faiss_store = NoStore
  /\ entityVectorStore = NoStore
  /\ entity_faiss_store = NoStore
  /\ db = EmptyDb
  /\ documents_db = db
  /\ server = ServerStarted
  /\ otherWindow = ClosedWindow
  /\ tasks = [t \in TaskIds |-> IdleTask]
  /\ ret = NoRet
  /\ calls = 0
  /\ called = {}
  /\ isExtracting = FALSE
  /\ shouldStopExtraction = FALSE


\* --------------------------------------------------------------- segments
\* The globals a segment reads and writes.
Cur ==
  [embedder |-> embedder, vectorStore |-> vectorStore,
   faiss_store |-> faiss_store, entityVectorStore |-> entityVectorStore,
   entity_faiss_store |-> entity_faiss_store, db |-> db,
   documents_db |-> documents_db]

\* database.js:172-186: Database.save() exports the whole in-memory database
\* and writes it over documents.db
save(S) == [S EXCEPT !.documents_db = S.db]

\* database.js:14-55: Database.init() with documents.db on disk reads the
\* file into a new in-memory database (createTables finds every table, and
\* the save that follows writes back what was read)
init(S) == save([S EXCEPT !.db = S.documents_db])

\* A segment ends at the next await (Cont) or with the call's return or
\* throw (Done).  reassigned: the segment bound the global vectorStore to
\* another object (or null), so references other calls hold go stale.
Cont(S, task, reassigned) ==
  [st |-> S, task |-> task, done |-> FALSE, ret |-> NoRet,
   reassigned |-> reassigned]

Done(S, r, reassigned) ==
  [st |-> S, task |-> IdleTask, done |-> TRUE, ret |-> r,
   reassigned |-> reassigned]

\* manage-rag.js:99-103: refreshDocumentList lists the sources again
refreshDocumentList(S) ==
  IF ~S.vectorStore.present /\ S.faiss_store.present
  THEN [S EXCEPT !.vectorStore = load(S.faiss_store, S.embedder)]
  ELSE S

\* manage-rag.js:546-565: extractGraphRAG(doc.source, true) of the loop's
\* next document, up to its call of extractGraphRAGForDocument
nextOfBatch(task) ==
  [IdleTask EXCEPT !.op = "build_graph",
                   !.pc = "extractGraphRAGForDocument",
                   !.source = task.unprocessedDocs[task.i + 1],
                   !.isBatchMode = TRUE,
                   !.unprocessedDocs = task.unprocessedDocs,
                   !.i = task.i + 1,
                   !.stopRequested = task.stopRequested]

\* The assignments of one segment.  When extractGraphRAGForDocument returns
\* or throws, extractGraphRAG in manage-rag.js goes on: it clears its two
\* flags (351-352, 394-395) and, after a return, refreshes the list (359).
\* Called by extractAllUnprocessed it leaves the flags (349, 392), and the
\* loop goes to its next document unless shouldStopExtraction is set or the
\* documents are used up (546-551); after the loop the flags are cleared
\* (582-584).
Commit(t, r) ==
  LET ended == r.done /\ tasks[t].op = "build_graph"
      inBatch == ended /\ tasks[t].isBatchMode
      goesOn == /\ inBatch
                /\ ~shouldStopExtraction
                /\ tasks[t].i < Len(tasks[t].unprocessedDocs)
      \* in a batch the list is refreshed on every way on (259, 346, 591)
      st == IF ended /\ (r.ret.result = "ok" \/ inBatch)
            THEN refreshDocumentList(r.st) ELSE r.st
  IN
  /\ isExtracting' = IF ended /\ ~goesOn THEN FALSE ELSE isExtracting
  /\ shouldStopExtraction' = IF ended /\ ~goesOn THEN FALSE ELSE shouldStopExtraction
  /\ embedder' = st.embedder
  /\ vectorStore' = st.vectorStore
  /\ faiss_store' = st.faiss_store
  /\ entityVectorStore' = st.entityVectorStore
  /\ entity_faiss_store' = st.entity_faiss_store
  /\ db' = st.db
  /\ documents_db' = st.documents_db
  /\ server' = server
  /\ otherWindow' = otherWindow
  /\ tasks' = [u \in DOMAIN tasks |->
                 IF u = t THEN (IF goesOn THEN nextOfBatch(tasks[t]) ELSE r.task)
                 ELSE IF r.reassigned /\ tasks[u].capt.held /\ tasks[u].capt.live
                      THEN [tasks[u] EXCEPT
                              !.capt = [held |-> TRUE, live |-> FALSE,
                                        store |-> vectorStore]]
                      ELSE tasks[u]]
  /\ ret' = IF r.done THEN r.ret ELSE ret
  /\ calls' = calls
  /\ called' = called

\* The store object a call holds a reference to.
Captured(task, S) == IF task.capt.live THEN S.vectorStore ELSE task.capt.store

\* What `await store.similaritySearch(..)` / `store.addDocuments(..)` ends
\* with: the service's outcome, or the library's dimension error.
SearchOutcome(store, outcome) ==
  IF outcome = "ok" /\ dimensionsMismatch(store) THEN "dimensions" ELSE outcome

\* ------------------------------------------- ingest: readAndSplit + saveChunksToFaiss
\* preload.js:1343-1384: the chunks carry the model of the embedder in use.
readAndSplitSeg(task, S) ==
  Cont(S, [task EXCEPT !.model = S.embedder, !.pc = "saveChunksToFaiss"], FALSE)

\* preload.js:616-653: insert the chunk rows, db.save(), then start embedding
storeChunks(task, S, reassigned) ==
  LET first == S.db.seq.chunks
      ids == (first + 1)..(first + task.n)
      docs == {[chunk_id |-> i, source |-> task.source,
                embeddingModel |-> task.model, by |-> <<>>] : i \in ids}
      S1 == save([S EXCEPT !.db = insertChunks(S.db, task.docId, task.n)])
      task1 == [task EXCEPT !.chunkIds = ids, !.docs = docs, !.capt = NoCapture]
  IN IF ~S1.vectorStore.present
     THEN IF S1.faiss_store.present
          THEN Cont([S1 EXCEPT !.vectorStore = load(S1.faiss_store, S1.embedder)],
                    [task1 EXCEPT !.pc = "addDocuments", !.capt = LiveCapture],
                    TRUE)
          ELSE Cont(S1, [task1 EXCEPT !.pc = "fromDocuments", !.emb = S1.embedder],
                    reassigned)
     ELSE Cont(S1, [task1 EXCEPT !.pc = "addDocuments", !.capt = LiveCapture],
               reassigned)

\* preload.js:555-614
saveChunksToFaissSeg(task, S) ==
  LET docResult == insertDocument(S.db, task.source, task.model)
      task1 == [task EXCEPT !.docId = docResult.id, !.existed = docResult.existed]
      S1 == [S EXCEPT !.db = docResult.db]
  IN IF docResult.existed /\ S.vectorStore.present
     THEN Cont(S1, [task1 EXCEPT !.pc = "replace_similaritySearch",
                                 !.capt = LiveCapture], FALSE)
     ELSE storeChunks(task1, S1, FALSE)

\* preload.js:589-613: the rebuild without the replaced source's vectors
replaceSearchSeg(task, S, outcome) ==
  LET store == Captured(task, S)
      remainingDocs == {x \in store.docs : x.source # task.source}
  IN IF SearchOutcome(store, outcome) # "ok"
     THEN \* rebuildError: vectorStore = null
          storeChunks(task, [S EXCEPT !.vectorStore = NoStore], TRUE)
     ELSE IF remainingDocs # {}
          THEN Cont(S, [task EXCEPT !.pc = "replace_fromDocuments",
                                    !.docs = remainingDocs,
                                    !.emb = S.embedder,
                                    !.capt = NoCapture], FALSE)
          ELSE storeChunks(task, [S EXCEPT !.vectorStore = NoStore,
                                           !.faiss_store = NoStore], TRUE)

replaceFromDocumentsSeg(task, S, outcome) ==
  IF outcome = "ok"
  THEN LET rebuilt == fromDocuments(task.docs, task.emb)
       IN storeChunks(task, [S EXCEPT !.vectorStore = rebuilt,
                                      !.faiss_store = rebuilt], TRUE)
  ELSE storeChunks(task, [S EXCEPT !.vectorStore = NoStore], TRUE)

\* preload.js:668-724: the catch block
saveChunksCatch(task, S, error) ==
  IF error \in {"error500", "dimensions"}
  THEN LET d1 == [S.db EXCEPT
                    !.chunks = {c \in @ : c.document_id # task.docId},
                    !.documents = {x \in @ : x.id # task.docId}]
       IN Done(save([S EXCEPT !.vectorStore = NoStore, !.faiss_store = NoStore,
                              !.db = d1]),
               MkRet(task, "EmbeddingFailed"), TRUE)
  ELSE Done(S, MkRet(task, "error"), FALSE)

\* preload.js:655-657: await vectorStore.save(storePath) on the global
saveStore(task, S, reassigned) ==
  IF S.vectorStore.present
  THEN Done([S EXCEPT !.faiss_store = S.vectorStore], MkRet(task, "ok"), reassigned)
  ELSE saveChunksCatch(task, S, "TypeError")

\* preload.js:646-647, 652: addDocuments on the store the call holds
addDocumentsSeg(task, S, outcome) ==
  LET store == Captured(task, S)
      result == SearchOutcome(store, outcome)
  IN IF result = "ok"
     THEN saveStore(task,
                    IF task.capt.live
                    THEN [S EXCEPT !.vectorStore = addDocuments(store, task.docs)]
                    ELSE S,
                    FALSE)
     ELSE saveChunksCatch(task, S, result)

\* preload.js:649
fromDocumentsSeg(task, S, outcome) ==
  IF outcome = "ok"
  THEN saveStore(task, [S EXCEPT !.vectorStore = fromDocuments(task.docs, task.emb)],
                 TRUE)
  ELSE saveChunksCatch(task, S, outcome)

\* ------------------------------------------------- deleteDocumentFromStore
\* preload.js:1297-1303
deleteRows(task, S, reassigned) ==
  Done(save([S EXCEPT !.db = cleanupOrphanedGraphData(
                                deleteDocumentBySource(S.db, task.source))]),
       MkRet(task, "ok"), reassigned)

\* preload.js:1253-1275
deleteDocumentFromStoreSeg(task, S) ==
  LET docIds == getDocumentIdsBySource(S.db, task.source)
  IN IF docIds = {}
     THEN Done(S, MkRet(task, "not_found"), FALSE)
     ELSE IF S.vectorStore.present
          THEN Cont(S, [task EXCEPT
                          !.chunkIds = getChunkIdsByDocumentIds(S.db, docIds),
                          !.pc = "delete_similaritySearch",
                          !.capt = LiveCapture], FALSE)
          ELSE deleteRows(task, S, FALSE)

\* preload.js:1275-1295
deleteSearchSeg(task, S, outcome) ==
  LET store == Captured(task, S)
      remainingDocs == {x \in store.docs : x.chunk_id \notin task.chunkIds}
  IN IF SearchOutcome(store, outcome) # "ok"
     THEN Done(S, MkRet(task, "error"), FALSE)
     ELSE IF remainingDocs # {}
          THEN Cont(S, [task EXCEPT !.pc = "delete_fromDocuments",
                                    !.docs = remainingDocs,
                                    !.emb = S.embedder,
                                    !.capt = NoCapture], FALSE)
          ELSE deleteRows(task, [S EXCEPT !.vectorStore = NoStore,
                                          !.faiss_store = NoStore], TRUE)

deleteFromDocumentsSeg(task, S, outcome) ==
  IF outcome = "ok"
  THEN LET rebuilt == fromDocuments(task.docs, task.emb)
       IN deleteRows(task, [S EXCEPT !.vectorStore = rebuilt,
                                     !.faiss_store = rebuilt], TRUE)
  ELSE Done(S, MkRet(task, "error"), FALSE)

\* resetForModel leaving the directory faiss_store in place
resetForModel_keepsDirectory(task, S) ==
  Done(save([S EXCEPT !.embedder = task.name,
                      !.vectorStore = NoStore,
                      !.db = deleteDocumentRows(
                               deleteChunkRows(S.db, {c.id : c \in S.db.chunks}),
                               {x.id : x \in S.db.documents})]),
       MkRet(task, "success"), TRUE)

\* -------------------------------------------------------- setEmbedderModel
\* preload.js:59-88: the switch itself
resetForModel(task, S) ==
  Done(save([S EXCEPT !.embedder = task.name,
                      !.vectorStore = NoStore,
                      !.faiss_store = NoStore,
                      !.db = deleteDocumentRows(
                               deleteChunkRows(S.db, {c.id : c \in S.db.chunks}),
                               {x.id : x \in S.db.documents})]),
       MkRet(task, "success"), TRUE)

\* setEmbedderModelSeg comparing the names as they are written
setEmbedderModelSeg_namesAsWritten(task, S) ==
  IF S.embedder = task.name /\ ~task.force
  THEN Done(S, MkRet(task, "success"), FALSE)
  ELSE IF ~task.force /\ S.vectorStore.present
       THEN Cont(S, [task EXCEPT !.pc = "getExistingModels",
                                 !.capt = LiveCapture], FALSE)
       ELSE resetForModel(task, S)

\* preload.js:33-57, and getExistingModels up to its await (91-97)
setEmbedderModelSeg(task, S) ==
  IF normalizeModelName(S.embedder) = normalizeModelName(task.name) /\ ~task.force
  THEN Done(S, MkRet(task, "success"), FALSE)
  ELSE IF ~task.force /\ S.vectorStore.present
       THEN Cont(S, [task EXCEPT !.pc = "getExistingModels",
                                 !.capt = LiveCapture], FALSE)
       ELSE resetForModel(task, S)

\* preload.js:97-120 and 50-57
getExistingModelsSeg(task, S, outcome) ==
  LET store == Captured(task, S)
      result == SearchOutcome(store, outcome)
      existingModels == {x.embeddingModel : x \in store.docs}
  IN IF result = "ok"
     THEN IF existingModels # {} /\ task.name \notin existingModels
          THEN Done(S, [MkRet(task, "confirmationRequired") EXCEPT
                          !.existingModels = existingModels], FALSE)
          ELSE resetForModel(task, S)
     ELSE IF result = "dimensions"
          THEN resetForModel(task, [S EXCEPT !.faiss_store = NoStore,
                                             !.vectorStore = NoStore])
          ELSE resetForModel(task, S)

\* --------------------------------------------------------- getStoredSources
\* preload.js:1200-1251
getStoredSourcesSeg(task, S) ==
  LET S1 == IF ~S.vectorStore.present /\ S.faiss_store.present
            THEN [S EXCEPT !.vectorStore = load(S.faiss_store, S.embedder)]
            ELSE S
  IN Done(S1, [MkRet(task, "ok") EXCEPT !.sources = getStoredSources(S1.db)],
          S1.vectorStore # S.vectorStore)


\* --------------------------------------------------- searchFromStoreEmbedding
\* preload.js:741-797: loadVectorStore, called with vectorStore null
loadVectorStore(S) ==
  LET S1 == IF S.faiss_store.present
            THEN [init(S) EXCEPT !.vectorStore = load(S.faiss_store, S.embedder)]
            ELSE init(S)
  IN IF S1.entity_faiss_store.present
     THEN [S1 EXCEPT !.entityVectorStore = load(S1.entity_faiss_store, S1.embedder)]
     ELSE S1

\* preload.js:801-837
searchFromStoreEmbeddingSeg(task, S) ==
  IF ~S.vectorStore.present
  THEN IF S.faiss_store.present
       THEN Cont(loadVectorStore(S),
                 [task EXCEPT !.pc = "search_similaritySearch",
                              !.capt = LiveCapture], TRUE)
       ELSE Done(S, MkRet(task, "error"), FALSE)
  ELSE Cont(S, [task EXCEPT !.pc = "search_similaritySearch",
                            !.capt = LiveCapture], FALSE)

\* preload.js:837-907
searchSimilaritySeg(task, S, outcome) ==
  LET result == SearchOutcome(Captured(task, S), outcome)
  IN IF result = "ok"
     THEN Done(S, MkRet(task, "ok"), FALSE)
     ELSE IF result = "dimensions"
          THEN Done(save([S EXCEPT
                            !.faiss_store = NoStore,
                            !.vectorStore = NoStore,
                            !.db = deleteDocumentRows(
                                     deleteChunkRows(S.db, {c.id : c \in S.db.chunks}),
                                     {x.id : x \in S.db.documents})]),
                    MkRet(task, "error"), TRUE)
          ELSE Done(S, MkRet(task, "error"), FALSE)


\* ---------------------------------------------- extractGraphRAGForDocument
Min(S) == CHOOSE x \in S : \A y \in S : x <= y

\* position of a chunk row in `ORDER BY c.chunk_index` (database.js:350-373)
PositionIn(rows, c) ==
  Cardinality({x \in rows : \/ x.chunk_index < c.chunk_index
                            \/ (x.chunk_index = c.chunk_index /\ x.id < c.id)})

\* preload.js:180-244: generateEntityEmbeddings up to its first embedding call
generateEntityEmbeddingsSeg(task, S) ==
  LET embeddingModel == S.embedder
      todo == {e \in S.db.entities :
                 \A r \in S.db.entity_embeddings :
                    ~(r.entity_id = e.id /\ r.embedding_model = embeddingModel)}
      entityDocs == {[entity_id |-> e.id, embedding_model |-> embeddingModel,
                      by |-> <<>>, copy |-> 1] : e \in todo}
      loaded == IF S.entity_faiss_store.present
                THEN [S EXCEPT !.entityVectorStore =
                                  load(S.entity_faiss_store, S.embedder)]
                ELSE S
      task1 == [task EXCEPT !.docs = entityDocs, !.model = embeddingModel,
                            !.emb = S.embedder]
  IN IF todo = {}
     THEN Done(save(loaded), MkRet(task, "ok"), FALSE)
     ELSE IF S.entity_faiss_store.present
          THEN Cont(loaded, [task1 EXCEPT !.pc = "entity_addDocuments"], FALSE)
          ELSE Cont(S, [task1 EXCEPT !.pc = "entity_fromDocuments"], FALSE)

\* preload.js:369-432: start batch task.batchIndex, or finish after the last
RECURSIVE startBatch(_, _)
startBatch(task, S) ==
  LET rows == task.docs
      totalBatches == (Cardinality(rows) + BATCH_SIZE - 1) \div BATCH_SIZE
      batchStart == task.batchIndex * BATCH_SIZE
      batchChunks == {c \in rows : /\ PositionIn(rows, c) >= batchStart
                                   /\ PositionIn(rows, c) < batchStart + BATCH_SIZE}
      toExtract == {c.id : c \in {x \in batchChunks :
                       \A m \in S.db.entity_mentions : m.chunk_id # x.id}}
  IN IF task.batchIndex >= totalBatches
     THEN generateEntityEmbeddingsSeg(task, S)
     ELSE LET task1 == [task EXCEPT !.skipped = @ + Cardinality(batchChunks)
                                                    - Cardinality(toExtract)]
          IN IF toExtract = {}
             THEN startBatch([task1 EXCEPT !.batchIndex = @ + 1], S)
             ELSE Cont(S, [task1 EXCEPT !.pc = "extract_batch",
                                        !.pending = toExtract], FALSE)

\* preload.js:336-367
extractGraphRAGForDocumentSeg(task, S) ==
  LET docIds == getDocumentIdsBySource(S.db, task.source)
      docId == Min(docIds)
      rows == {c \in S.db.chunks : c.document_id = docId}
  IN IF docIds = {} THEN Done(S, MkRet(task, "error"), FALSE)
     ELSE IF rows = {} THEN Done(S, MkRet(task, "error"), FALSE)
     ELSE startBatch([task EXCEPT !.docId = docId, !.docs = rows,
                                  !.n = Cardinality(rows), !.batchIndex = 0], S)

\* extractChunkSeg going on to the next batch as soon as one call of the
\* batch has returned (no Promise.all)
extractChunkSeg_withoutPromiseAll(task, S, chunkId, extraction) ==
  LET S1 == IF extraction.ok
            THEN save([S EXCEPT !.db = storeExtraction(S.db, chunkId, extraction)])
            ELSE S
  IN startBatch([task EXCEPT !.pending = @ \ {chunkId}, !.batchIndex = @ + 1], S1)

\* extractChunkSeg with a failed extraction thrown out of the batch: the
\* build ends with the error
extractChunkSeg_failureAborts(task, S, chunkId, extraction) ==
  IF extraction.ok
  THEN LET S1 == save([S EXCEPT !.db = storeExtraction(S.db, chunkId, extraction)])
           task1 == [task EXCEPT !.pending = @ \ {chunkId},
                                 !.successful = @ \cup {chunkId}]
       IN IF task1.pending = {}
          THEN startBatch([task1 EXCEPT !.batchIndex = @ + 1], S1)
          ELSE Cont(S1, task1, FALSE)
  ELSE Done(S, MkRet([task EXCEPT !.failed = @ \cup {chunkId}], "error"), FALSE)

\* preload.js:394-418: one chunk's extraction call returns; its result is
\* { success: true } when there is an extraction, { success: false } when
\* extractFromChunk returned null or threw
extractChunkSeg(task, S, chunkId, extraction) ==
  LET S1 == IF extraction.ok
            THEN save([S EXCEPT !.db = storeExtraction(S.db, chunkId, extraction)])
            ELSE S
      task1 == [task EXCEPT
                  !.pending = @ \ {chunkId},
                  !.successful = IF extraction.ok THEN @ \cup {chunkId} ELSE @,
                  !.failed = IF extraction.ok THEN @ ELSE @ \cup {chunkId}]
  IN IF task1.pending = {}
     THEN startBatch([task1 EXCEPT !.batchIndex = @ + 1], S1)
     ELSE Cont(S1, task1, FALSE)

\* addDocuments appends: an index that has a vector of an entity keeps it
\* when it is given another, which is that entity's next copy
nextCopies(store, docs) ==
  {[x EXCEPT !.copy = 1 + Cardinality({y \in store.docs :
                                         y.entity_id = x.entity_id})] : x \in docs}

\* preload.js:235-243 with the store on disk
entityAddDocumentsSeg(task, S, outcome) ==
  IF SearchOutcome(S.entityVectorStore, outcome) = "ok"
  THEN LET store == addDocuments(S.entityVectorStore,
                                 nextCopies(S.entityVectorStore, task.docs))
       IN Cont([S EXCEPT !.entityVectorStore = store, !.entity_faiss_store = store],
               [task EXCEPT !.pc = "entity_embedQuery"], FALSE)
  ELSE Done(save(S), MkRet(task, "ok"), FALSE)

\* preload.js:239-243 without one
entityFromDocumentsSeg(task, S, outcome) ==
  IF outcome = "ok"
  THEN LET store == fromDocuments(task.docs, task.emb)
       IN Cont([S EXCEPT !.entityVectorStore = store, !.entity_faiss_store = store],
               [task EXCEPT !.pc = "entity_embedQuery"], FALSE)
  ELSE Done(save(S), MkRet(task, "ok"), FALSE)

\* preload.js:245-263
entityEmbedQuerySeg(task, S, outcome) ==
  IF outcome = "ok"
  THEN Done(save([S EXCEPT !.db.entity_embeddings = @ \cup
                    {[entity_id |-> x.entity_id, embedding_model |-> task.model,
                      dimension |-> Dim(S.embedder)] : x \in task.docs}]),
            MkRet(task, "ok"), FALSE)
  ELSE Done(save(S), MkRet(task, "ok"), FALSE)

\* ---------------------------------------------------------------- actions
\* A call is made: the UI invokes an exposed function.  limit is the number
\* of calls that may be in flight.
InFlight == {t \in DOMAIN tasks : tasks[t].pc # "idle"}

\* limit = 1: calls follow one another, and a run makes MaxCalls of them.
\* limit > 1: calls may overlap, and a run makes MaxConcCalls of them.
Counted(limit) ==
  /\ calls < (IF limit > 1 THEN MaxConcCalls ELSE MaxCalls)
  /\ calls' = calls + 1

FreeSlot(t, limit) ==
  /\ tasks[t].pc = "idle"
  /\ Cardinality(InFlight) < limit
  /\ Counted(limit)

Call(t, task) ==
  /\ tasks' = [tasks EXCEPT ![t] = task]
  /\ called' = called \cup {task.op}
  /\ ret' = NoRet
  /\ UNCHANGED <<embedder, vectorStore, faiss_store, entityVectorStore,
                 entity_faiss_store, db, documents_db, otherWindow, server, isExtracting, shouldStopExtraction>>

CallIngest(t, limit) ==
  \E source \in Sources, n \in 1..MaxChunks :
    /\ FreeSlot(t, limit)
    /\ db.seq.chunks + n <= MaxChunkId
    /\ db.seq.documents < MaxDocId
    /\ Call(t, [IdleTask EXCEPT !.op = "ingest", !.pc = "readAndSplit",
                                !.source = source, !.n = n])

CallDelete(t, limit) ==
  \E source \in Sources :
    /\ FreeSlot(t, limit)
    /\ Call(t, [IdleTask EXCEPT !.op = "delete", !.pc = "deleteDocumentFromStore",
                                !.source = source])

CallSetEmbedderModel(t, limit) ==
  \E name \in ModelNames, force \in BOOLEAN :
    /\ FreeSlot(t, limit)
    /\ Call(t, [IdleTask EXCEPT !.op = "setEmbedderModel",
                                !.pc = "setEmbedderModel",
                                !.name = name, !.force = force])

CallGetStoredSources(t, limit) ==
  /\ FreeSlot(t, limit)
  /\ Call(t, [IdleTask EXCEPT !.op = "getStoredSources", !.pc = "getStoredSources"])

CallSearch(t, limit) ==
  /\ FreeSlot(t, limit)
  /\ Call(t, [IdleTask EXCEPT !.op = "search", !.pc = "searchFromStoreEmbedding"])

readAndSplit(t) ==
  /\ tasks[t].pc = "readAndSplit"
  /\ Commit(t, readAndSplitSeg(tasks[t], Cur))

saveChunksToFaiss(t) ==
  /\ tasks[t].pc = "saveChunksToFaiss"
  /\ Commit(t, saveChunksToFaissSeg(tasks[t], Cur))

ReplaceSearch(t) ==
  /\ tasks[t].pc = "replace_similaritySearch"
  /\ \E outcome \in EmbedOutcomes : Commit(t, replaceSearchSeg(tasks[t], Cur, outcome))

ReplaceFromDocuments(t) ==
  /\ tasks[t].pc = "replace_fromDocuments"
  /\ \E outcome \in EmbedOutcomes :
       Commit(t, replaceFromDocumentsSeg(tasks[t], Cur, outcome))

AddDocuments(t) ==
  /\ tasks[t].pc = "addDocuments"
  /\ \E outcome \in EmbedOutcomes : Commit(t, addDocumentsSeg(tasks[t], Cur, outcome))

FromDocuments(t) ==
  /\ tasks[t].pc = "fromDocuments"
  /\ \E outcome \in EmbedOutcomes : Commit(t, fromDocumentsSeg(tasks[t], Cur, outcome))

deleteDocumentFromStore(t) ==
  /\ tasks[t].pc = "deleteDocumentFromStore"
  /\ Commit(t, deleteDocumentFromStoreSeg(tasks[t], Cur))

DeleteSearch(t) ==
  /\ tasks[t].pc = "delete_similaritySearch"
  /\ \E outcome \in EmbedOutcomes : Commit(t, deleteSearchSeg(tasks[t], Cur, outcome))

DeleteFromDocuments(t) ==
  /\ tasks[t].pc = "delete_fromDocuments"
  /\ \E outcome \in EmbedOutcomes :
       Commit(t, deleteFromDocumentsSeg(tasks[t], Cur, outcome))

setEmbedderModel(t) ==
  /\ tasks[t].pc = "setEmbedderModel"
  /\ Commit(t, setEmbedderModelSeg(tasks[t], Cur))

getExistingModels(t) ==
  /\ tasks[t].pc = "getExistingModels"
  /\ \E outcome \in EmbedOutcomes :
       Commit(t, getExistingModelsSeg(tasks[t], Cur, outcome))

getStoredSourcesCall(t) ==
  /\ tasks[t].pc = "getStoredSources"
  /\ Commit(t, getStoredSourcesSeg(tasks[t], Cur))

searchFromStoreEmbedding(t) ==
  /\ tasks[t].pc = "searchFromStoreEmbedding"
  /\ Commit(t, searchFromStoreEmbeddingSeg(tasks[t], Cur))

SearchSimilarity(t) ==
  /\ tasks[t].pc = "search_similaritySearch"
  /\ \E outcome \in EmbedOutcomes : Commit(t, searchSimilaritySeg(tasks[t], Cur, outcome))

\* manage-rag.js:232-325: extractGraphRAG(source) of one document, up to its
\* call of extractGraphRAGForDocument.  The document's button is disabled
\* while isExtracting (manage-rag.js:135, 161).
CallExtractGraphRAG(t, limit) ==
  \E source \in Sources :
    /\ ~isExtracting
    /\ FreeSlot(t, limit)
    /\ tasks' = [tasks EXCEPT ![t] =
                   [IdleTask EXCEPT
                      !.op = "build_graph",
                      !.pc = "extractGraphRAGForDocument",
                      !.source = source,
                      \* the call before this one was a finished build of the same source
                      !.again = (/\ ret.op = "build_graph" /\ ret.result = "ok"
                                 /\ ret.source = source)]]
    /\ called' = called \cup {"build_graph"}
    /\ ret' = NoRet
    /\ shouldStopExtraction' = FALSE
    /\ isExtracting' = TRUE
    /\ vectorStore' = refreshDocumentList(Cur).vectorStore
    /\ UNCHANGED <<embedder, faiss_store, entityVectorStore, entity_faiss_store, db,
                   documents_db, otherWindow, server>>

\* manage-rag.js:610-623: the stop button
stopExtraction ==
  /\ isExtracting
  /\ shouldStopExtraction' = TRUE
  /\ isExtracting' = FALSE
  /\ vectorStore' = refreshDocumentList(Cur).vectorStore
  /\ tasks' = [u \in DOMAIN tasks |->
                 IF tasks[u].isBatchMode
                 THEN [tasks[u] EXCEPT !.stopRequested = TRUE] ELSE tasks[u]]
  /\ UNCHANGED <<embedder, faiss_store, entityVectorStore, entity_faiss_store, db, documents_db, otherWindow, server,
                 ret, calls, called>>

extractGraphRAGForDocument(t) ==
  /\ tasks[t].pc = "extractGraphRAGForDocument"
  /\ Commit(t, extractGraphRAGForDocumentSeg(tasks[t], Cur))

ExtractChunkTo(t, extractions) ==
  /\ tasks[t].pc = "extract_batch"
  /\ \E chunkId \in tasks[t].pending, extraction \in extractions :
       Commit(t, extractChunkSeg(tasks[t], Cur, chunkId, extraction))

ExtractChunk(t) == ExtractChunkTo(t, Extractions)

EntityAddDocuments(t) ==
  /\ tasks[t].pc = "entity_addDocuments"
  /\ \E outcome \in EmbedOutcomes :
       Commit(t, entityAddDocumentsSeg(tasks[t], Cur, outcome))

EntityFromDocuments(t) ==
  /\ tasks[t].pc = "entity_fromDocuments"
  /\ \E outcome \in EmbedOutcomes :
       Commit(t, entityFromDocumentsSeg(tasks[t], Cur, outcome))

EntityEmbedQuery(t) ==
  /\ tasks[t].pc = "entity_embedQuery"
  /\ \E outcome \in EmbedOutcomes :
       Commit(t, entityEmbedQuerySeg(tasks[t], Cur, outcome))

\* preload.js:1421-1429: ipcRenderer.on('embed-model-changed')
EmbedModelChanged(limit) ==
  \E modelName \in ModelNames :
    /\ limit = 1 => InFlight = {}
    /\ Counted(limit)
    /\ embedder # modelName
    /\ embedder' = modelName
    /\ called' = called \cup {"embed-model-changed"}
    /\ ret' = NoRet
    /\ UNCHANGED <<vectorStore, faiss_store, entityVectorStore,
                   entity_faiss_store, db, documents_db, otherWindow, server, tasks, isExtracting,
                   shouldStopExtraction>>

Step(t) ==
  \/ readAndSplit(t)
  \/ saveChunksToFaiss(t)
  \/ ReplaceSearch(t)
  \/ ReplaceFromDocuments(t)
  \/ AddDocuments(t)
  \/ FromDocuments(t)
  \/ deleteDocumentFromStore(t)
  \/ DeleteSearch(t)
  \/ DeleteFromDocuments(t)
  \/ setEmbedderModel(t)
  \/ getExistingModels(t)
  \/ getStoredSourcesCall(t)
  \/ searchFromStoreEmbedding(t)
  \/ SearchSimilarity(t)
  \/ extractGraphRAGForDocument(t)
  \/ ExtractChunk(t)
  \/ EntityAddDocuments(t)
  \/ EntityFromDocuments(t)
  \/ EntityEmbedQuery(t)

Calls(t, limit) ==
  \/ CallIngest(t, limit)
  \/ CallDelete(t, limit)
  \/ CallSetEmbedderModel(t, limit)
  \/ CallGetStoredSources(t, limit)
  \/ CallSearch(t, limit)
  \/ CallExtractGraphRAG(t, limit)

\* One call at a time: every call returns before the next is made, and an
\* event is handled between calls.
Next ==
  \/ Calls(1, 1)
  \/ Step(1)
  \/ EmbedModelChanged(1)
  \/ stopExtraction

Spec == Init /\ [][Next]_vars

\* Up to two calls in flight, their segments interleaved at the awaits.
NextConc ==
  \/ \E t \in TaskIds : Calls(t, 2) \/ Step(t)
  \/ EmbedModelChanged(2)
  \/ stopExtraction

SpecConc == Init /\ [][NextConc]_vars

\* A document of more chunks than one batch holds, ingested under the default
\* model, after a first build of its graph in which the model found Kant in
\* the chunks of AlreadyExtracted and nothing in the others: those others are
\* extracted again by the next build, the last of them in a second batch.
LongDocument == [id |-> 1, source |-> "/a.pdf", embedding_model |-> DefaultModel]
LongDocumentChunks == 1..(BATCH_SIZE + 1)
AlreadyExtracted == 1..(BATCH_SIZE - 4)
LongDocumentStored(extracted, callsSoFar) ==
  LET docs == {[chunk_id |-> i, source |-> LongDocument.source,
                embeddingModel |-> DefaultModel, by |-> <<>>] :
                 i \in LongDocumentChunks}
      store == fromDocuments(docs, DefaultModel)
      entityStore == fromDocuments({[entity_id |-> 1,
                                     embedding_model |-> DefaultModel,
                                     by |-> <<>>, copy |-> 1]}, DefaultModel)
  IN /\ embedder = DefaultModel
     /\ vectorStore = store
     /\ faiss_store = store
     /\ entityVectorStore = entityStore
     /\ entity_faiss_store = entityStore
     /\ db = [EmptyDb EXCEPT
                !.documents = {LongDocument},
                !.chunks = {[id |-> i, document_id |-> LongDocument.id,
                             chunk_index |-> i - 1] : i \in LongDocumentChunks},
                !.entities = {[id |-> 1, name |-> Kant.name, type |-> Kant.type]},
                !.entity_mentions = {[entity_id |-> 1, chunk_id |-> i] :
                                       i \in extracted},
                !.entity_embeddings = {[entity_id |-> 1,
                                        embedding_model |-> DefaultModel,
                                        dimension |-> Dim(DefaultModel)]},
                !.seq = [documents |-> 1, chunks |-> BATCH_SIZE + 1,
                         entities |-> 1, relationships |-> 0]]
     /\ documents_db = db
     /\ server = ServerStarted
     /\ otherWindow = ClosedWindow
     /\ tasks = [t \in TaskIds |-> IdleTask]
     /\ ret = NoRet
     /\ calls = callsSoFar
     /\ called = {"ingest", "build_graph"}
     /\ isExtracting = FALSE
     /\ shouldStopExtraction = FALSE

InitBatch == LongDocumentStored(AlreadyExtracted, 2)

\* The manage-RAG window building the graph of the long document (the entity
\* index is on disk throughout, so generateEntityEmbeddings loads it).
NextBatch ==
  \/ CallExtractGraphRAG(1, 1)
  \/ extractGraphRAGForDocument(1)
  \/ ExtractChunk(1)
  \/ EntityAddDocuments(1)
  \/ EntityEmbedQuery(1)
  \/ stopExtraction

SpecBatch == InitBatch /\ [][NextBatch]_vars

\* One build with every call it awaits returning at some time: the
\* extraction model and the embedding service answer or fail, and the event
\* loop runs the continuation.
BuildContinues ==
  \/ extractGraphRAGForDocument(1)
  \/ ExtractChunk(1)
  \/ EntityAddDocuments(1)
  \/ EntityEmbedQuery(1)

\* one build of the long document
InitBatchLive == LongDocumentStored(AlreadyExtracted, MaxCalls - 1)

SpecBatchLive == InitBatchLive /\ [][NextBatch]_vars /\ WF_vars(BuildContinues)

\* The same window with the user free to press a document's button again
\* once the stop button has re-enabled it: two builds may be running.
\* Chunks 1..FirstToExtract-1 of the long document are extracted already,
\* and an extraction call fails or finds Kant: Kant has its embedding, so
\* generateEntityEmbeddings finds nothing to embed and returns.
FirstToExtract == 4
FailedOrKant == {x \in Extractions : Len(x.entities) <= 1 /\ x.ok = (x.entities # <<>>)}
InitExtract == LongDocumentStored(1..(FirstToExtract - 1), 1)

NextExtract ==
  \/ \E t \in TaskIds :
        \/ CallExtractGraphRAG(t, 2)
        \/ extractGraphRAGForDocument(t)
        \/ ExtractChunkTo(t, FailedOrKant)
  \/ stopExtraction

SpecExtract == InitExtract /\ [][NextExtract]_vars

\* ---------------------------------------------------- extractAllUnprocessed
\* `GROUP BY source` of database.js:249-256 lists the sources in their order
SourceOrder == <<"/a.pdf", "/b.pdf">>

\* preload.js:502-553: getGraphRAGProgress(source); Math.round of a
\* non-negative quotient rounds the half up
getGraphRAGProgress(d, source) ==
  LET docIds == getDocumentIdsBySource(d, source)
      docId == Min(docIds)
      totalChunks == Cardinality({c \in d.chunks : c.document_id = docId})
      processedChunks ==
        Cardinality({c \in d.chunks :
                       /\ c.document_id = docId
                       /\ \E em \in d.entity_mentions : em.chunk_id = c.id})
  IN IF docIds = {}
     THEN [totalChunks |-> 0, processedChunks |-> 0, percentage |-> 0]
     ELSE [totalChunks |-> totalChunks,
           processedChunks |-> processedChunks,
           percentage |-> IF totalChunks > 0
                          THEN (200 * processedChunks + totalChunks)
                                 \div (2 * totalChunks)
                          ELSE 0]

\* manage-rag.js:511-519: the stored sources whose progress is below 100
unprocessedOf(d) ==
  SelectSeq(SourceOrder,
            LAMBDA source :
              /\ source \in getStoredSources(d)
              /\ getGraphRAGProgress(d, source).percentage < 100)

\* manage-rag.js:509-511: the extract-all button, shown while no extraction
\* is (manage-rag.js:28-38), up to the await of getStoredSources
CallExtractAllUnprocessed(t, limit) ==
  /\ ~isExtracting
  /\ FreeSlot(t, limit)
  /\ Call(t, [IdleTask EXCEPT !.op = "extractAllUnprocessed",
                              !.pc = "extractAll_getStoredSources"])

\* manage-rag.js:513-565: the sources are there; the documents are chosen,
\* the user confirms or not, the flags are set and the first document's
\* extractGraphRAG(source, true) runs up to extractGraphRAGForDocument
extractAllUnprocessed(t) ==
  /\ tasks[t].pc = "extractAll_getStoredSources"
  /\ \E confirmed \in BOOLEAN :
       LET r == getStoredSourcesSeg(tasks[t], Cur)
           unprocessedDocs == unprocessedOf(r.st.db)
           starts == unprocessedDocs # <<>> /\ confirmed
           st == IF starts THEN refreshDocumentList(r.st) ELSE r.st
       IN /\ isExtracting' = IF starts THEN TRUE ELSE isExtracting
          /\ shouldStopExtraction' = IF starts THEN FALSE ELSE shouldStopExtraction
          /\ tasks' = [tasks EXCEPT ![t] =
                         IF starts
                         THEN nextOfBatch([IdleTask EXCEPT
                                             !.unprocessedDocs = unprocessedDocs])
                         ELSE IdleTask]
          /\ ret' = IF starts THEN ret
                    ELSE MkRet(tasks[t], IF unprocessedDocs = <<>>
                                         THEN "allExtracted" ELSE "notConfirmed")
          /\ embedder' = st.embedder
          /\ vectorStore' = st.vectorStore
          /\ faiss_store' = st.faiss_store
          /\ entityVectorStore' = st.entityVectorStore
          /\ entity_faiss_store' = st.entity_faiss_store
          /\ db' = st.db
          /\ documents_db' = st.documents_db
          /\ UNCHANGED <<otherWindow, server, calls, called>>

\* Two documents stored under the default model: /a.pdf of two chunks, in the
\* first of which an earlier build found Kant while the call for the second
\* failed, and /b.pdf of one chunk, not yet extracted.
TwoDocuments ==
  {[id |-> 1, source |-> "/a.pdf", embedding_model |-> DefaultModel],
   [id |-> 2, source |-> "/b.pdf", embedding_model |-> DefaultModel]}
TwoDocumentsChunks ==
  {[id |-> 1, document_id |-> 1, chunk_index |-> 0],
   [id |-> 2, document_id |-> 1, chunk_index |-> 1],
   [id |-> 3, document_id |-> 2, chunk_index |-> 0]}
InitExtractAll ==
  LET docs == {[chunk_id |-> c.id,
                source |-> IF c.document_id = 1 THEN "/a.pdf" ELSE "/b.pdf",
                embeddingModel |-> DefaultModel, by |-> <<>>] :
                 c \in TwoDocumentsChunks}
      store == fromDocuments(docs, DefaultModel)
      entityStore == fromDocuments({[entity_id |-> 1,
                                     embedding_model |-> DefaultModel,
                                     by |-> <<>>, copy |-> 1]}, DefaultModel)
  IN /\ embedder = DefaultModel
     /\ vectorStore = store
     /\ faiss_store = store
     /\ entityVectorStore = entityStore
     /\ entity_faiss_store = entityStore
     /\ db = [EmptyDb EXCEPT
                !.documents = TwoDocuments,
                !.chunks = TwoDocumentsChunks,
                !.entities = {[id |-> 1, name |-> Kant.name, type |-> Kant.type]},
                !.entity_mentions = {[entity_id |-> 1, chunk_id |-> 1]},
                !.entity_embeddings = {[entity_id |-> 1,
                                        embedding_model |-> DefaultModel,
                                        dimension |-> Dim(DefaultModel)]},
                !.seq = [documents |-> 2, chunks |-> 3,
                         entities |-> 1, relationships |-> 0]]
     /\ documents_db = db
     /\ server = ServerStarted
     /\ otherWindow = ClosedWindow
     /\ tasks = [t \in TaskIds |-> IdleTask]
     /\ ret = NoRet
     /\ calls = 0
     /\ called = {"ingest", "build_graph"}
     /\ isExtracting = FALSE
     /\ shouldStopExtraction = FALSE

\* The manage-RAG window with its extract-all button, the documents' own
\* buttons and the stop button.
NextExtractAll ==
  \/ \E t \in TaskIds :
        \/ CallExtractAllUnprocessed(t, 2)
        \/ extractAllUnprocessed(t)
        \/ CallExtractGraphRAG(t, 2)
        \/ extractGraphRAGForDocument(t)
        \/ ExtractChunkTo(t, FailedOrKant)
  \/ stopExtraction

SpecExtractAll == InitExtractAll /\ [][NextExtractAll]_vars

\* -------------------------------------------------------------- startServer
OtherVars == <<embedder, vectorStore, faiss_store, entityVectorStore,
               entity_faiss_store, db, documents_db, otherWindow, tasks,
               calls, called, isExtracting, shouldStopExtraction>>

\* app.listen succeeded
Listening ==
  /\ server.pc = "listen"
  /\ "listening" \in ListenOutcomes(server.inUse, server.port)
  /\ server' = listening(server)
  /\ UNCHANGED <<OtherVars, ret>>

\* app.listen failed: server.on('error')
ListenError ==
  /\ server.pc = "listen"
  /\ \E code \in ListenOutcomes(server.inUse, server.port) \ {"listening"} :
       server' = onError(server, code)
  /\ UNCHANGED <<OtherVars, ret>>

\* main.js:17-38: createMainWindow sets global.mainWindow
createMainWindow ==
  /\ ~server.mainWindow
  /\ server' = [server EXCEPT !.mainWindow = TRUE]
  /\ UNCHANGED <<OtherVars, ret>>

\* main.js:197-202, server.js:129-133: 'get-server-port' returns getPort()
getPort ==
  /\ ret' = [NoRet EXCEPT !.op = "getPort", !.port = server.serverPort]
  /\ UNCHANGED <<OtherVars, server>>

\* The application starting on a fresh installation, other processes holding
\* any of the ports.
InitServer ==
  /\ embedder = DefaultModel
  /\ vectorStore = NoStore
  /\ faiss_store = NoStore
  /\ entityVectorStore = NoStore
  /\ entity_faiss_store = NoStore
  /\ db = EmptyDb
  /\ documents_db = db
  /\ \E inUse \in SUBSET PortsInUse : server = ServerLoaded(inUse)
  /\ otherWindow = ClosedWindow
  /\ tasks = [t \in TaskIds |-> IdleTask]
  /\ ret = NoRet
  /\ calls = 0
  /\ called = {}
  /\ isExtracting = FALSE
  /\ shouldStopExtraction = FALSE

NextServer ==
  \/ Listening
  \/ ListenError
  \/ createMainWindow
  \/ getPort

SpecServer == InitServer /\ [][NextServer]_vars

\* ------------------------------------------------------------- text values
\* A text is a sequence of letters. The letters of the model: the ASCII
\* letters of the texts below, "A" and "K" in upper case, a letter outside
\* ASCII in both cases (written "AE" and "ae"), and the blank.
Letters == {"a", "A", "b", "AE", "ae", " ", "K", "k", "n", "t", "o", "r", "s",
            "g", "d"}

\* the letters of the strings the model holds as strings
Chars(string) ==
  IF string = "Kant" THEN <<"K", "a", "n", "t">>
  ELSE IF string = "Korsgaard"
       THEN <<"K", "o", "r", "s", "g", "a", "a", "r", "d">>
       ELSE <<>>

\* SQLite's built-in lower(): ASCII letters only
LOWER(text) ==
  [i \in DOMAIN text |-> IF text[i] = "A" THEN "a"
                         ELSE IF text[i] = "K" THEN "k" ELSE text[i]]

\* String.prototype.toLowerCase: every letter that has a lower case gets it
toLowerCase(text) ==
  [i \in DOMAIN text |-> IF text[i] = "AE" THEN "ae" ELSE LOWER(text)[i]]

\* .trim().split(/\s+/).filter(k => k.length > 0): the runs of non-blank
\* letters, in order, repeated ones kept
RECURSIVE split(_, _, _)
split(text, i, word) ==
  LET ended == IF word = <<>> THEN <<>> ELSE <<word>>
  IN IF i > Len(text) THEN ended
     ELSE IF text[i] = " " THEN ended \o split(text, i + 1, <<>>)
     ELSE split(text, i + 1, Append(word, text[i]))

\* the number of matches of new RegExp(escapedKeyword, 'gi') from position i
\* on: left to right, a match never starting inside the one before it
RECURSIVE matches(_, _, _)
matches(contentLower, keyword, i) ==
  IF i + Len(keyword) - 1 > Len(contentLower) THEN 0
  ELSE IF SubSeq(contentLower, i, i + Len(keyword) - 1) = keyword
       THEN 1 + matches(contentLower, keyword, i + Len(keyword))
       ELSE matches(contentLower, keyword, i + 1)

\* X LIKE '%keyword%' (none of the letters is a wildcard of LIKE): keyword
\* occurs in X, upper and lower case of an ASCII letter taken as equal
LIKE(X, keyword) ==
  \E i \in 1..Len(X) :
     /\ i + Len(keyword) - 1 <= Len(X)
     /\ LOWER(SubSeq(X, i, i + Len(keyword) - 1)) = LOWER(keyword)

\* ------------------------------------------------------------ fullTextSearch
\* The rows a scan of a table yields when the statement has no ORDER BY:
\* SQLite walks the table's b-tree, which is in rowid (id) order.
RECURSIVE scan(_)
scan(rows) ==
  IF rows = {} THEN <<>>
  ELSE LET r == CHOOSE r \in rows : \A o \in rows : r.id <= o.id
       IN <<r>> \o scan(rows \ {r})

\* Array.prototype.slice(0, n)
slice(seq, n) == SubSeq(seq, 1, IF n < Len(seq) THEN n ELSE Len(seq))

\* the total a row gets from the loop over the keywords (database.js:423-436)
RECURSIVE score(_, _, _)
score(contentLower, keywords, i) ==
  IF i > Len(keywords) THEN 0
  ELSE matches(contentLower, keywords[i], 1) + score(contentLower, keywords, i + 1)

\* scoredRows.sort((a, b) => b.score - a.score): the sort is stable, rows of
\* equal score keep the order they came in
RECURSIVE sortByScore(_, _)
sortByScore(rows, i) ==
  IF i = 0 THEN <<>>
  ELSE LET sorted == sortByScore(rows, i - 1)
           n == Cardinality({j \in DOMAIN sorted : sorted[j].score >= rows[i].score})
       IN SubSeq(sorted, 1, n) \o <<rows[i]>> \o SubSeq(sorted, n + 1, Len(sorted))

\* the WHERE clause with AND between the LIKE conditions
likeAny_everyKeyword(rows, keywords) ==
  {c \in rows : \A i \in DOMAIN keywords : LIKE(LOWER(c.content), keywords[i])}

\* the SELECT of fullTextSearch with the OR of its LIKE conditions
likeAny(rows, keywords) ==
  {c \in rows : \E i \in DOMAIN keywords : LIKE(LOWER(c.content), keywords[i])}

\* database.js:404-436: the rows of the SELECT, each with its score
scoreRows(rows, keywords) ==
  [i \in DOMAIN rows |->
     [id |-> rows[i].id, document_id |-> rows[i].document_id,
      chunk_index |-> rows[i].chunk_index, content |-> rows[i].content,
      source |-> rows[i].source, embedding_model |-> rows[i].embedding_model,
      score |-> score(toLowerCase(rows[i].content), keywords, 1)]]

\* database.js:439-445
topByScore(scoredRows, limit) ==
  slice(sortByScore(scoredRows, Len(scoredRows)), limit)

\* database.js:395-402: chunks JOIN documents
chunksWithDocument(d) ==
  {[id |-> p[1].id, document_id |-> p[1].document_id,
    chunk_index |-> p[1].chunk_index, content |-> p[1].content,
    source |-> p[2].source, embedding_model |-> p[2].embedding_model] :
     p \in {p \in d.chunks \X d.documents : p[1].document_id = p[2].id}}

\* database.js:385-445, from the keywords on
searchKeywords(d, keywords, limit) ==
  IF keywords = <<>> THEN <<>>
  ELSE topByScore(scoreRows(slice(scan(likeAny(chunksWithDocument(d), keywords)),
                                  limit * 3),
                            keywords),
                  limit)

\* database.js:381-446
fullTextSearch(d, query, limit) ==
  searchKeywords(d, split(toLowerCase(query), 1, <<>>), limit)

\* ---------------------------------------------------- keyword search alone
\* Two documents of two chunks each have been ingested; the chunk texts are
\* drawn from Contents. The only operation is db.fullTextSearch(query, limit),
\* as searchFromStoreFullText calls it when no chat model rewrites the query.
KeywordChunks == 4
Contents == {<<"b">>, <<"a">>, <<"a", " ", "A">>, <<"AE", "AE">>, <<"a", "b", "a">>}
Queries == {<<"a">>, <<"b">>, <<"A", " ", "b">>, <<"a", " ", "ae">>, <<" ">>,
            <<"a", "b">>}
Limits == {1, 2}

KeywordDocuments ==
  {[id |-> 1, source |-> "/a.pdf", embedding_model |-> DefaultModel],
   [id |-> 2, source |-> "/b.pdf", embedding_model |-> DefaultModel]}

InitKeyword ==
  \E content \in [1..KeywordChunks -> Contents] :
    LET rows == {[id |-> i, document_id |-> (i + 1) \div 2,
                  chunk_index |-> (i + 1) % 2, content |-> content[i]] :
                   i \in 1..KeywordChunks}
        docs == {[chunk_id |-> c.id,
                  source |-> IF c.document_id = 1 THEN "/a.pdf" ELSE "/b.pdf",
                  embeddingModel |-> DefaultModel, by |-> <<>>] : c \in rows}
        store == fromDocuments(docs, DefaultModel)
    IN /\ embedder = DefaultModel
       /\ vectorStore = store
       /\ faiss_store = store
       /\ entityVectorStore = NoStore
       /\ entity_faiss_store = NoStore
       /\ db = [EmptyDb EXCEPT
                  !.documents = KeywordDocuments,
                  !.chunks = rows,
                  !.seq = [documents |-> 2, chunks |-> KeywordChunks,
                           entities |-> 0, relationships |-> 0]]
       /\ documents_db = db
       /\ server = ServerStarted
       /\ otherWindow = ClosedWindow
       /\ tasks = [t \in TaskIds |-> IdleTask]
       /\ ret = NoRet
       /\ calls = 2
       /\ called = {"ingest"}
       /\ isExtracting = FALSE
       /\ shouldStopExtraction = FALSE

FullTextSearch ==
  \E query \in Queries, limit \in Limits :
    /\ ret' = [NoRet EXCEPT !.op = "fullTextSearch", !.result = "ok",
                            !.query = query, !.k = limit,
                            !.results = fullTextSearch(db, query, limit)]
    /\ UNCHANGED <<embedder, vectorStore, faiss_store, entityVectorStore,
                   entity_faiss_store, db, documents_db, otherWindow, server, tasks, calls, called,
                   isExtracting, shouldStopExtraction>>

NextKeyword == FullTextSearch

SpecKeyword == InitKeyword /\ [][NextKeyword]_vars

\* ------------------------------------------------------------ searchFromStore
\* What one retrieval strategy ends with: it raised, or it returned a list.
Failed == [failed |-> TRUE, results |-> <<>>]
Returned(results) == [failed |-> FALSE, results |-> results]

\* database.js:319-345 (the rows, none or one, of the SELECT with its JOIN)
getChunkById(d, chunkId) ==
  {[id |-> p[1].id, document_id |-> p[1].document_id,
    chunk_index |-> p[1].chunk_index, content |-> p[1].content,
    source |-> p[2].source] :
     p \in {p \in d.chunks \X d.documents :
              p[1].id = chunkId /\ p[1].document_id = p[2].id}}

\* store.similaritySearch(query, k) answers with the k nearest vectors, or
\* all of them when there are fewer; which ones are nearest is up to the
\* embedding model.
Rankings(docs, k) ==
  LET n == IF k < Cardinality(docs) THEN k ELSE Cardinality(docs)
  IN {hits \in [1..n -> docs] : \A i, j \in 1..n : i # j => hits[i] # hits[j]}

\* preload.js:849-872: the text of a hit comes from its chunk row; a hit
\* without a row is returned as the index holds it
faissResultToChunk(result, chunk) ==
  IF chunk = {}
  THEN [pageContent |-> result.pageContent, source |-> result.source,
        chunk_id |-> result.chunk_id, score |-> 0, graphrag |-> FALSE,
        entity_names |-> {}]
  ELSE [pageContent |-> (CHOOSE row \in chunk : TRUE).content,
        source |-> (CHOOSE row \in chunk : TRUE).source,
        chunk_id |-> result.chunk_id, score |-> 0, graphrag |-> FALSE,
        entity_names |-> {}]

\* preload.js:848-873
faissResultsToChunks(d, faissResults) ==
  [i \in DOMAIN faissResults |->
     faissResultToChunk(faissResults[i], getChunkById(d, faissResults[i].chunk_id))]

\* preload.js:837-907: what the call ends with after similaritySearch
searchEnded(ended, faissResults) ==
  IF ended.ret.result = "ok"
  THEN [st |-> ended.st,
        part |-> Returned(faissResultsToChunks(ended.st.db, faissResults))]
  ELSE [st |-> ended.st, part |-> Failed]

\* preload.js:801-837: the call has thrown, or it goes on to similaritySearch
searchStarted(started, outcome, faissResults) ==
  IF started.done THEN [st |-> started.st, part |-> Failed]
  ELSE searchEnded(searchSimilaritySeg(started.task, started.st, outcome),
                   faissResults)

\* preload.js:801-907, the whole call: the segments of searchFromStoreEmbedding
\* one after the other, with the hits of the index turned into results
searchFromStoreEmbeddingCall(S, outcome, faissResults) ==
  searchStarted(searchFromStoreEmbeddingSeg(
                  [IdleTask EXCEPT !.op = "search",
                                   !.pc = "searchFromStoreEmbedding"], S),
                outcome, faissResults)

\* preload.js:1016-1025
ftsResultsToDocuments(ftsResults) ==
  [i \in DOMAIN ftsResults |->
     [pageContent |-> ftsResults[i].content, source |-> ftsResults[i].source,
      chunk_id |-> 0, score |-> ftsResults[i].score, graphrag |-> FALSE,
      entity_names |-> {}]]

\* preload.js:1000-1031, called without a chat model: no rewriting
searchFromStoreFullText(d, query, k) ==
  Returned(ftsResultsToDocuments(fullTextSearch(d, query, k)))

\* `${result.metadata.source}-${result.pageContent.substring(0, 50)}`
MergeKey(result) == <<result.source, slice(result.pageContent, 50)>>

\* the two loops of searchFromStoreHybrid (preload.js:1050-1066): a result is
\* pushed when its key is new and fewer than cap results are merged
RECURSIVE pushUnseen(_, _, _, _)
pushUnseen(mergedResults, results, i, cap) ==
  IF i > Len(results) THEN mergedResults
  ELSE pushUnseen(
         IF /\ MergeKey(results[i]) \notin
                 {MergeKey(mergedResults[j]) : j \in DOMAIN mergedResults}
            /\ Len(mergedResults) < cap
         THEN Append(mergedResults, results[i])
         ELSE mergedResults,
         results, i + 1, cap)

\* preload.js:1047-1070: embedding results first (that loop has no cap), then
\* the keyword results up to 2k merged, then the cut to k
mergeResults(embeddingResults, fullTextResults, k) ==
  slice(pushUnseen(pushUnseen(<<>>, embeddingResults, 1, Len(embeddingResults) + 1),
                   fullTextResults, 1, k * 2), k)

\* .catch(() => [])
orEmpty(part) == IF part.failed THEN <<>> ELSE part.results

\* Promise.all without the .catch(() => []) on its two members
searchFromStoreHybrid_noCatch(embedding, fullText, k) ==
  IF embedding.failed \/ fullText.failed THEN Failed
  ELSE Returned(mergeResults(embedding.results, fullText.results, k))

\* the merge with the keyword hits pushed before the embedding hits
searchFromStoreHybrid_fullTextFirst(embedding, fullText, k) ==
  Returned(mergeResults(orEmpty(fullText), orEmpty(embedding), k))

\* preload.js:1034-1075
searchFromStoreHybrid(embedding, fullText, k) ==
  Returned(mergeResults(orEmpty(embedding), orEmpty(fullText), k))

\* --------------------------------------------------------------- graph search
\* graphrag-search.js:14-73 (the ids; with no more than topEntities = 3 entities
\* stored, neither the LIMIT nor the scores decide which are kept)
searchEntitiesByKeyword(d, query) ==
  LET keywords == split(toLowerCase(query), 1, <<>>)
  IN {e.id : e \in {e \in d.entities :
                      \E i \in DOMAIN keywords :
                         LIKE(LOWER(Chars(e.name)), keywords[i])}}

\* graphrag-search.js:83-126: no store, or a failed similaritySearch, gives []
searchEntitiesByEmbedding(store, d, outcome) ==
  IF ~store.present \/ SearchOutcome(store, outcome) # "ok" THEN {}
  ELSE {x.entity_id : x \in store.docs} \cap {e.id : e \in d.entities}

\* graphrag-search.js:137-169 (no more than topEntities = 3 entities are stored, so
\* slice(0, topK) keeps every merged entity)
mergeEntitySearchResults(keywordResults, embeddingResults) ==
  keywordResults \cup embeddingResults

\* graphrag-search.js:175-192, in tenths
getRelationshipTypeWeight(relationshipType) ==
  CASE relationshipType = "CITES" -> 20
    [] relationshipType = "AUTHORED" -> 18
    [] relationshipType = "PROPOSES" -> 15
    [] relationshipType \in {"EXTENDS", "BASED_ON"} -> 13
    [] relationshipType \in {"USES_METHOD", "USES_DATASET"} -> 12
    [] relationshipType \in {"STUDIES", "ABOUT"} -> 11
    [] relationshipType = "RELATED_TO" -> 8
    [] relationshipType = "AFFILIATED_WITH" -> 7
    [] OTHER -> 10

\* graphrag-search.js:210-226: the rows of the SELECT DISTINCT, one for each
\* entity outside entityIds and each (type, weight) of a relationship that
\* joins it to an entity of entityIds, in either direction
relatedRows(d, entityIds) ==
  {[id |-> p[1].id, name |-> p[1].name, relationship_type |-> p[2].relationship_type,
    weight |-> p[2].weight] :
     p \in {p \in d.entities \X d.relationships :
              /\ p[1].id \notin entityIds
              /\ \/ /\ p[2].source_entity_id \in entityIds
                    /\ p[1].id = p[2].target_entity_id
                 \/ /\ p[2].target_entity_id \in entityIds
                    /\ p[1].id = p[2].source_entity_id}}

\* ORDER BY r.weight DESC: the orders in which the SELECT may yield the rows,
\* rows of equal weight in any order
Orderings(rows) ==
  {order \in [1..Cardinality(rows) -> rows] :
     /\ \A i, j \in DOMAIN order : i # j => order[i] # order[j]
     /\ \A i, j \in DOMAIN order : i < j => order[i].weight >= order[j].weight}

\* graphrag-search.js:243-246
weighted_score(entity) ==
  entity.weight * getRelationshipTypeWeight(entity.relationship_type)

\* graphrag-search.js:248: Array.prototype.sort is stable
RECURSIVE sortByWeightedScore(_)
sortByWeightedScore(entities) ==
  IF entities = <<>> THEN <<>>
  ELSE LET first == CHOOSE i \in DOMAIN entities :
                      /\ \A j \in DOMAIN entities :
                            weighted_score(entities[i]) >= weighted_score(entities[j])
                      /\ \A j \in 1..(i - 1) :
                            weighted_score(entities[j]) < weighted_score(entities[i])
       IN <<entities[first]>>
          \o sortByWeightedScore(SubSeq(entities, 1, first - 1)
                                 \o SubSeq(entities, first + 1, Len(entities)))

\* graphrag-search.js:202-259. order is the order in which the SELECT yields
\* its rows; LIMIT maxRelated * 2 cuts it before the type weights are applied.
findRelatedEntities(d, entityIds, maxRelated, order) ==
  IF entityIds = {} THEN <<>>
  ELSE slice(sortByWeightedScore(slice(order, maxRelated * 2)), maxRelated)

\* preload.js:1130
DefaultMaxRelated == 5

idsOf(entities) == {entities[i].id : i \in DOMAIN entities}

\* graphrag-search.js:346-354. The ids of maxRelated or fewer rows do not
\* depend on the order of the rows.
relatedEntityIds(d, initialEntityIds) ==
  idsOf(findRelatedEntities(
          d, initialEntityIds, DefaultMaxRelated,
          CHOOSE order \in Orderings(relatedRows(d, initialEntityIds)) : TRUE))

\* ORDER BY entity_count DESC, c.chunk_index over the groups, which come in
\* the order of c.id
RECURSIVE orderByEntityCount(_)
orderByEntityCount(rows) ==
  IF rows = {} THEN <<>>
  ELSE LET first == CHOOSE r \in rows : \A o \in rows :
                      \/ r.entity_count > o.entity_count
                      \/ /\ r.entity_count = o.entity_count
                         /\ \/ r.chunk_index < o.chunk_index
                            \/ r.chunk_index = o.chunk_index /\ r.id <= o.id
       IN <<first>> \o orderByEntityCount(rows \ {first})

\* the entities of entityIds that chunk c mentions
mentionedIn(d, c, entityIds) ==
  {e \in d.entities :
     /\ e.id \in entityIds
     /\ \E em \in d.entity_mentions : em.chunk_id = c.id /\ em.entity_id = e.id}

\* graphrag-search.js:267-307
getChunksFromEntities(d, entityIds) ==
  orderByEntityCount(
    {[id |-> p[1].id, content |-> p[1].content, chunk_index |-> p[1].chunk_index,
      source |-> p[2].source,
      entity_names |-> {e.name : e \in mentionedIn(d, p[1], entityIds)},
      entity_count |-> Cardinality(mentionedIn(d, p[1], entityIds))] :
       p \in {p \in d.chunks \X d.documents :
                /\ p[1].document_id = p[2].id
                /\ mentionedIn(d, p[1], entityIds) # {}}})

\* preload.js:1137-1150
graphChunksToDocuments(chunks) ==
  [i \in DOMAIN chunks |->
     [pageContent |-> chunks[i].content, source |-> chunks[i].source,
      chunk_id |-> chunks[i].id, score |-> 0, graphrag |-> TRUE,
      entity_names |-> chunks[i].entity_names]]

\* graphrag-search.js:340-365: from the seed entities on
chunksOfSeeds(d, initialEntityIds, maxChunks) ==
  slice(getChunksFromEntities(d, initialEntityIds
                                   \cup relatedEntityIds(d, initialEntityIds)),
        maxChunks)

\* graphrag-search.js:320-366 and the conversion of preload.js:1137-1150
graphRagSearch(d, store, query, outcome, maxChunks) ==
  Returned(graphChunksToDocuments(
    chunksOfSeeds(d,
                  mergeEntitySearchResults(
                    searchEntitiesByKeyword(d, query),
                    searchEntitiesByEmbedding(store, d, outcome)),
                  maxChunks)))

\* preload.js:1157-1170: a result with a chunk_id is kept the first time the
\* id is seen, a result without one is always kept
RECURSIVE deduplicate(_, _)
deduplicate(allResults, i) ==
  IF i = 0 THEN <<>>
  ELSE IF /\ allResults[i].chunk_id # 0
          /\ \E j \in 1..(i - 1) : allResults[j].chunk_id = allResults[i].chunk_id
       THEN deduplicate(allResults, i - 1)
       ELSE Append(deduplicate(allResults, i - 1), allResults[i])

\* preload.js:1157-1181
deduplicatedResults(allResults, k) ==
  slice(deduplicate(allResults, Len(allResults)), k * 2)

\* preload.js:1104-1120: the chunk strategies of the mode, given what the
\* embedding search and the keyword search end with. In hybrid mode the
\* keyword search has read the database before the embedding search comes
\* back from its first await.
chunkRAG(S, options, k, embedding, fullText) ==
  IF ~options.useChunkRAG THEN [st |-> S, part |-> Returned(<<>>)]
  ELSE IF options.mode = "embedding" THEN embedding
  ELSE IF options.mode = "fulltext" THEN [st |-> S, part |-> fullText]
  ELSE [st |-> embedding.st,
        part |-> searchFromStoreHybrid(embedding.part, fullText, k)]

\* what each strategy that ran ended with
partsOf(options, embedding, fullText, graph) ==
  [embedding |-> IF options.useChunkRAG /\ options.mode # "fulltext"
                 THEN embedding.part ELSE Returned(<<>>),
   fullText |-> IF options.useChunkRAG /\ options.mode # "embedding"
                THEN fullText ELSE Returned(<<>>),
   graph |-> graph]

\* preload.js:1123-1155
graphRAG(S, options, query, k, entityOutcome) ==
  IF options.useGraphRAG
  THEN graphRagSearch(S.db, S.entityVectorStore, query, entityOutcome, k)
  ELSE Returned(<<>>)

\* preload.js:1122-1181 with the chunk results at hand
withGraph(options, k, embedding, fullText, chunk, graph) ==
  [st |-> chunk.st,
   parts |-> partsOf(options, embedding, fullText, graph),
   results |-> deduplicatedResults(chunk.part.results \o graph.results, k)]

\* preload.js:1098-1181 with the results of the two chunk searches at hand
withChunks(options, query, k, env, embedding, fullText, chunk) ==
  withGraph(options, k, embedding, fullText, chunk,
            graphRAG(chunk.st, options, query, k, env.entityOutcome))

\* preload.js:1098-1181
searchWith(S, options, query, k, env, embedding, fullText) ==
  withChunks(options, query, k, env, embedding, fullText,
             chunkRAG(S, options, k, embedding, fullText))

\* preload.js:1089-1182. options is {mode, useChunkRAG, useGraphRAG}; env is
\* what the services answer: the outcome of the query's embedding and the
\* hits of the chunk index, and the outcome of the embedding for the entity
\* index.
searchFromStore(S, query, k, options, env) ==
  searchWith(S, options, query, k, env,
             searchFromStoreEmbeddingCall(S, env.outcome, env.faissResults),
             searchFromStoreFullText(S.db, query, k))

\* ------------------------------------------------------- retrieval alone
\* /a.pdf (chunks 1 and 2) and /b.pdf (chunk 3) have been ingested and the
\* graph of /a.pdf has been built: the model found Kant in chunk 1, and
\* Korsgaard, Kant and a relationship between them in chunk 2. The chunk
\* texts are drawn from SearchContents; two of them share their first 50
\* letters. The stores are in memory, or on disk only; the active model is
\* the one the documents were embedded with, or one of another vector length
\* that the main window's model menu has selected since.
Header == [i \in 1..50 |-> "a"]
SearchContents == {Header \o <<"a">>, Header \o <<"b">>, <<"b", "a", "b">>}
SearchQueries == {<<"a">>, <<"b">>, Chars(Korsgaard.name)}
\* a similaritySearch ends with the hits or with the service's failure
SearchOutcomes == {"ok", "fetchFailed"}
SearchLimits == {1, 2, 5}
Modes == {"embedding", "fulltext", "hybrid"}

InitSearch ==
  \E content \in [1..3 -> SearchContents], inMemory \in BOOLEAN,
     active \in {DefaultModel, <<"nomic-embed-text">>} :
    LET rows == {[id |-> i, document_id |-> (i + 1) \div 2,
                  chunk_index |-> (i + 1) % 2, content |-> content[i]] :
                   i \in 1..3}
        docs == {[chunk_id |-> c.id,
                  source |-> IF c.document_id = 1 THEN "/a.pdf" ELSE "/b.pdf",
                  embeddingModel |-> DefaultModel, by |-> <<>>,
                  pageContent |-> c.content] : c \in rows}
        store == fromDocuments(docs, DefaultModel)
        ingested == [EmptyDb EXCEPT
                       !.documents = KeywordDocuments,
                       !.chunks = rows,
                       !.seq = [documents |-> 2, chunks |-> 3,
                                entities |-> 0, relationships |-> 0]]
        extracted ==
          storeExtraction(
            storeExtraction(ingested, 1,
                            [ok |-> TRUE, entities |-> <<Kant>>,
                             relationships |-> <<>>]),
            2, [ok |-> TRUE, entities |-> <<Korsgaard, Kant>>,
                relationships |-> <<[source |-> "Korsgaard", target |-> "Kant",
                                     type |-> "RELATED_TO"]>>])
        entityStore ==
          fromDocuments({[entity_id |-> e.id, embedding_model |-> DefaultModel,
                          by |-> <<>>, copy |-> 1] : e \in extracted.entities},
                        DefaultModel)
    IN /\ embedder = active
       /\ vectorStore = IF inMemory THEN store ELSE NoStore
       /\ faiss_store = store
       /\ entityVectorStore = IF inMemory THEN entityStore ELSE NoStore
       /\ entity_faiss_store = entityStore
       /\ db = [extracted EXCEPT
                  !.entity_embeddings =
                     {[entity_id |-> e.id, embedding_model |-> DefaultModel,
                       dimension |-> Dim(DefaultModel)] : e \in extracted.entities}]
       /\ documents_db = db
       /\ server = ServerStarted
       /\ otherWindow = ClosedWindow
       /\ tasks = [t \in TaskIds |-> IdleTask]
       /\ ret = NoRet
       /\ calls = MaxCalls - 1
       /\ called = {"ingest", "build_graph"}
                   \cup IF active = DefaultModel THEN {}
                        ELSE {"embed-model-changed"}
       /\ isExtracting = FALSE
       /\ shouldStopExtraction = FALSE

\* the call returns r.results and leaves the state r.st
SearchReturns(query, k, options, r) ==
  /\ calls < MaxCalls
  /\ calls' = calls + 1
  /\ called' = called \cup {"search"}
  /\ embedder' = r.st.embedder
  /\ vectorStore' = r.st.vectorStore
  /\ faiss_store' = r.st.faiss_store
  /\ entityVectorStore' = r.st.entityVectorStore
  /\ entity_faiss_store' = r.st.entity_faiss_store
  /\ db' = r.st.db
  /\ documents_db' = r.st.documents_db
  /\ ret' = [NoRet EXCEPT !.op = "searchFromStore", !.result = "ok",
                          !.query = query, !.k = k, !.mode = options.mode,
                          !.useChunkRAG = options.useChunkRAG,
                          !.useGraphRAG = options.useGraphRAG,
                          !.parts = r.parts, !.results = r.results]
  /\ UNCHANGED <<otherWindow, server, tasks, isExtracting, shouldStopExtraction>>

\* window.electronAPI.searchFromStore(query, k, options), start to end. What
\* the embedding service answers is drawn only where the call asks it: the
\* query's embedding when the embedding search runs, the hits when it
\* succeeds, the embedding for the entity index when the graph search runs.
SearchFromStore ==
  \E query \in SearchQueries, k \in SearchLimits, mode \in Modes,
     useChunkRAG \in BOOLEAN, useGraphRAG \in BOOLEAN :
    \E outcome \in IF useChunkRAG /\ mode # "fulltext"
                   THEN SearchOutcomes ELSE {"ok"},
       entityOutcome \in IF useGraphRAG THEN SearchOutcomes ELSE {"ok"} :
      \E faissResults \in
           IF useChunkRAG /\ mode # "fulltext" /\ outcome = "ok"
           THEN Rankings(IF vectorStore.present THEN vectorStore.docs
                                                ELSE faiss_store.docs, k)
           ELSE {<<>>} :
        SearchReturns(query, k,
                      [mode |-> mode, useChunkRAG |-> useChunkRAG,
                       useGraphRAG |-> useGraphRAG],
                      searchFromStore(Cur, query, k,
                                      [mode |-> mode, useChunkRAG |-> useChunkRAG,
                                       useGraphRAG |-> useGraphRAG],
                                      [outcome |-> outcome,
                                       faissResults |-> faissResults,
                                       entityOutcome |-> entityOutcome]))

NextSearch == SearchFromStore

SpecSearch == InitSearch /\ [][NextSearch]_vars

\* ------------------------------------------------------------ two windows
\* main.js:204-246: 'open-manage-rag-window' creates a second BrowserWindow
\* with preload.js as its preload script.  Each window is a renderer of its
\* own: it has its own embedder, its own FaissStore objects and its own
\* sql.js database in memory.  The directories faiss_store and
\* entity_faiss_store and the file documents.db are what the windows share.
Globals(window) ==
  [embedder |-> window.embedder, vectorStore |-> window.vectorStore,
   faiss_store |-> faiss_store, entityVectorStore |-> window.entityVectorStore,
   entity_faiss_store |-> entity_faiss_store, db |-> window.db,
   documents_db |-> documents_db]

\* preload.js:16, 26-27, 162-173, 1432: the globals of a window once its
\* preload script has run and its loadVectorStore() has finished
Preloaded == loadVectorStore(Globals(ClosedWindow))

OpenWindow(S) ==
  [open |-> TRUE, embedder |-> S.embedder, vectorStore |-> S.vectorStore,
   entityVectorStore |-> S.entityVectorStore, db |-> S.db]

\* the segment a call is at, with the embedding service answering
awaited(task, S) ==
  CASE task.pc = "readAndSplit" -> readAndSplitSeg(task, S)
    [] task.pc = "saveChunksToFaiss" -> saveChunksToFaissSeg(task, S)
    [] task.pc = "replace_similaritySearch" -> replaceSearchSeg(task, S, "ok")
    [] task.pc = "replace_fromDocuments" -> replaceFromDocumentsSeg(task, S, "ok")
    [] task.pc = "addDocuments" -> addDocumentsSeg(task, S, "ok")
    [] task.pc = "fromDocuments" -> fromDocumentsSeg(task, S, "ok")
    [] task.pc = "deleteDocumentFromStore" -> deleteDocumentFromStoreSeg(task, S)
    [] task.pc = "delete_similaritySearch" -> deleteSearchSeg(task, S, "ok")
    [] task.pc = "delete_fromDocuments" -> deleteFromDocumentsSeg(task, S, "ok")
    [] task.pc = "getStoredSources" -> getStoredSourcesSeg(task, S)

\* a call from its first segment to its return, no other call in between
RECURSIVE toReturn(_)
toReturn(r) == IF r.done THEN r ELSE toReturn(awaited(r.task, r.st))

\* what the user can ask of a window: upload a file, delete a listed
\* document, refresh the list
WindowCalls(S) ==
  {[IdleTask EXCEPT !.op = "ingest", !.pc = "readAndSplit",
                    !.source = source, !.n = n] :
     source \in {x \in Sources : S.db.seq.documents < MaxDocId},
     n \in {x \in 1..MaxChunks : S.db.seq.chunks + x <= MaxChunkId}}
  \cup {[IdleTask EXCEPT !.op = "delete", !.pc = "deleteDocumentFromStore",
                         !.source = source] : source \in Sources}
  \cup {[IdleTask EXCEPT !.op = "getStoredSources", !.pc = "getStoredSources"]}

\* called keeps, besides the kinds of call, the sources that were ingested
WindowCounted(task) ==
  /\ calls < MaxCalls
  /\ calls' = calls + 1
  /\ called' = called \cup {task.op}
                       \cup (IF task.op = "ingest" THEN {task.source} ELSE {})
  /\ UNCHANGED <<tasks, isExtracting, shouldStopExtraction>>

\* a call made in the first window
FirstWindowCall ==
  \E task \in WindowCalls(Cur) :
    /\ WindowCounted(task)
    /\ embedder' = toReturn(Cont(Cur, task, FALSE)).st.embedder
    /\ vectorStore' = toReturn(Cont(Cur, task, FALSE)).st.vectorStore
    /\ faiss_store' = toReturn(Cont(Cur, task, FALSE)).st.faiss_store
    /\ entityVectorStore' = toReturn(Cont(Cur, task, FALSE)).st.entityVectorStore
    /\ entity_faiss_store' = toReturn(Cont(Cur, task, FALSE)).st.entity_faiss_store
    /\ db' = toReturn(Cont(Cur, task, FALSE)).st.db
    /\ documents_db' = toReturn(Cont(Cur, task, FALSE)).st.documents_db
    /\ ret' = toReturn(Cont(Cur, task, FALSE)).ret
    /\ server' = server
    /\ otherWindow' = otherWindow

\* the same call made in the second window
OtherWindowCall ==
  \E task \in WindowCalls(Globals(otherWindow)) :
    /\ otherWindow.open
    /\ WindowCounted(task)
    /\ server' = server
    /\ otherWindow' =
         OpenWindow(toReturn(Cont(Globals(otherWindow), task, FALSE)).st)
    /\ faiss_store' =
         toReturn(Cont(Globals(otherWindow), task, FALSE)).st.faiss_store
    /\ entity_faiss_store' =
         toReturn(Cont(Globals(otherWindow), task, FALSE)).st.entity_faiss_store
    /\ documents_db' =
         toReturn(Cont(Globals(otherWindow), task, FALSE)).st.documents_db
    /\ ret' = toReturn(Cont(Globals(otherWindow), task, FALSE)).ret
    /\ UNCHANGED <<embedder, vectorStore, entityVectorStore, db>>

\* main.js:204-246 and manage-rag.js:625-633
OpenManageRAGWindow ==
  /\ ~otherWindow.open
  /\ server' = server
  /\ otherWindow' = OpenWindow(Preloaded)
  /\ documents_db' = Preloaded.documents_db
  /\ called' = called \cup {"open-manage-rag-window"}
  /\ ret' = NoRet
  /\ UNCHANGED <<embedder, vectorStore, faiss_store, entityVectorStore,
                 entity_faiss_store, db, tasks, calls, isExtracting,
                 shouldStopExtraction>>

\* main.js:243-245: 'closed'
ManageRAGWindowClosed ==
  /\ otherWindow.open
  /\ server' = server
  /\ otherWindow' = ClosedWindow
  /\ ret' = NoRet
  /\ UNCHANGED <<embedder, vectorStore, faiss_store, entityVectorStore,
                 entity_faiss_store, db, documents_db, tasks, calls, called,
                 isExtracting, shouldStopExtraction>>

\* main.js:178-186: the application is quit and started again; the first
\* window's preload script runs anew
Restart ==
  /\ "restart" \notin called
  /\ embedder' = Preloaded.embedder
  /\ vectorStore' = Preloaded.vectorStore
  /\ entityVectorStore' = Preloaded.entityVectorStore
  /\ db' = Preloaded.db
  /\ documents_db' = Preloaded.documents_db
  /\ server' = server
  /\ otherWindow' = ClosedWindow
  /\ called' = called \cup {"restart"}
  /\ ret' = [NoRet EXCEPT !.op = "restart"]
  /\ UNCHANGED <<faiss_store, entity_faiss_store, tasks, calls, isExtracting,
                 shouldStopExtraction>>

NextWindows ==
  \/ FirstWindowCall
  \/ OtherWindowCall
  \/ OpenManageRAGWindow
  \/ ManageRAGWindowClosed
  \/ Restart

SpecWindows == Init /\ [][NextWindows]_vars

\* ------------------------------------------------- search after a re-ingest
\* preload.js:16, 26-27, 162-173: nothing ingested yet
FreshInstall ==
  [embedder |-> DefaultModel, vectorStore |-> NoStore, faiss_store |-> NoStore,
   entityVectorStore |-> NoStore, entity_faiss_store |-> NoStore,
   db |-> EmptyDb, documents_db |-> EmptyDb]

\* ingest('/a.pdf') of a one-chunk file, then ingest('/a.pdf') of the file
\* grown to two chunks while the embedding service is down for the rebuild's
\* similaritySearch (preload.js:609-613: vectorStore = null, the directory
\* stays) and up again for addDocuments: the first version's vector stays in
\* the index, its chunk row is gone.
rebuildFailed(r) == toReturn(replaceSearchSeg(r.task, r.st, "fetchFailed")).st

Reingested ==
  rebuildFailed(
    saveChunksToFaissSeg(
      [IdleTask EXCEPT !.op = "ingest", !.pc = "saveChunksToFaiss",
                       !.source = "/a.pdf", !.n = 2, !.model = DefaultModel],
      toReturn(Cont(FreshInstall,
                    [IdleTask EXCEPT !.op = "ingest", !.pc = "readAndSplit",
                                     !.source = "/a.pdf", !.n = 1],
                    FALSE)).st))

\* the texts of the chunks, which the ingest segments leave out
withContent(rows, content) ==
  {[id |-> c.id, document_id |-> c.document_id, chunk_index |-> c.chunk_index,
    content |-> content[c.id]] : c \in rows}

withPageContent(store, content) ==
  [store EXCEPT !.docs = {[chunk_id |-> x.chunk_id, source |-> x.source,
                           embeddingModel |-> x.embeddingModel, by |-> x.by,
                           pageContent |-> content[x.chunk_id]] : x \in @}]

InitReingested ==
  \E content \in [1..3 -> SearchContents], inMemory \in BOOLEAN :
    /\ embedder = Reingested.embedder
    /\ vectorStore = IF inMemory
                     THEN withPageContent(Reingested.vectorStore, content)
                     ELSE NoStore
    /\ faiss_store = withPageContent(Reingested.faiss_store, content)
    /\ entityVectorStore = NoStore
    /\ entity_faiss_store = NoStore
    /\ db = [Reingested.db EXCEPT !.chunks = withContent(@, content)]
    /\ documents_db = db
    /\ server = ServerStarted
    /\ otherWindow = ClosedWindow
    /\ tasks = [t \in TaskIds |-> IdleTask]
    /\ ret = NoRet
    /\ calls = MaxCalls - 1
    /\ called = {"ingest"}
    /\ isExtracting = FALSE
    /\ shouldStopExtraction = FALSE

SpecReingested == InitReingested /\ [][NextSearch]_vars

\* ------------------------------------------------------ neighbor expansion
\* graphrag-search.js:202-259 on the graph the build stored for one chunk.
\* The model named two papers and a person in the chunk, and up to
\* MaxRelationships relationships that validateExtractionResult lets pass
\* (renderer.js:1050-1125): a paper CITES a paper, a person AUTHORED a paper,
\* anything is RELATED_TO anything.
Groundwork == [name |-> "Groundwork", type |-> "PAPER"]
Sources_of_Normativity == [name |-> "Sources of Normativity", type |-> "PAPER"]
Mentioned == <<Groundwork, Sources_of_Normativity, Kant>>
MaxRelationships == 3
RelatedLimits == {1, 2}

\* renderer.js:933-960
ENTITY_TYPES == {"PERSON", "TOPIC", "RESEARCH_METHOD", "PAPER", "CONCEPT",
                 "ORGANIZATION", "DATASET"}

\* renderer.js:965-1012
RELATIONSHIP_TYPES == {"AUTHORED", "AFFILIATED_WITH", "CITES", "ABOUT", "STUDIES",
                       "USES_METHOD", "USES_DATASET", "BASED_ON", "EXTENDS",
                       "CONTRADICTS", "PROPOSES", "RELATED_TO"}

\* renderer.js:1050-1099
VALID_RELATIONSHIP_PATTERNS(relationshipType) ==
  CASE relationshipType = "AUTHORED" ->
         [source |-> {"PERSON"}, target |-> {"PAPER"}]
    [] relationshipType = "AFFILIATED_WITH" ->
         [source |-> {"PERSON"}, target |-> {"ORGANIZATION"}]
    [] relationshipType = "CITES" ->
         [source |-> {"PAPER"}, target |-> {"PAPER"}]
    [] relationshipType \in {"ABOUT", "STUDIES"} ->
         [source |-> {"PAPER"}, target |-> {"TOPIC"}]
    [] relationshipType = "USES_METHOD" ->
         [source |-> {"PAPER"}, target |-> {"RESEARCH_METHOD"}]
    [] relationshipType = "USES_DATASET" ->
         [source |-> {"PAPER"}, target |-> {"DATASET"}]
    [] relationshipType = "BASED_ON" ->
         [source |-> {"CONCEPT", "RESEARCH_METHOD"}, target |-> {"CONCEPT"}]
    [] relationshipType = "EXTENDS" ->
         [source |-> {"CONCEPT", "RESEARCH_METHOD"},
          target |-> {"CONCEPT", "RESEARCH_METHOD"}]
    [] relationshipType = "CONTRADICTS" ->
         [source |-> {"CONCEPT"}, target |-> {"CONCEPT"}]
    [] relationshipType = "PROPOSES" ->
         [source |-> {"PERSON", "PAPER"},
          target |-> {"CONCEPT", "RESEARCH_METHOD"}]
    [] relationshipType = "RELATED_TO" ->
         [source |-> ENTITY_TYPES, target |-> ENTITY_TYPES]
    [] OTHER -> [source |-> {}, target |-> {}]

\* isValidRelationship without the test of the pattern
isValidRelationship_typeOnly(relationshipType, sourceEntityType, targetEntityType) ==
  relationshipType \in RELATIONSHIP_TYPES

\* renderer.js:1108-1126 (a type without a pattern has no valid pair)
isValidRelationship(relationshipType, sourceEntityType, targetEntityType) ==
  /\ sourceEntityType \in VALID_RELATIONSHIP_PATTERNS(relationshipType).source
  /\ targetEntityType \in VALID_RELATIONSHIP_PATTERNS(relationshipType).target

validRelationships ==
  {[source |-> Mentioned[i].name, target |-> Mentioned[j].name, type |-> type] :
     <<i, j, type>> \in
       {x \in (DOMAIN Mentioned) \X (DOMAIN Mentioned)
                \X {"AUTHORED", "CITES", "RELATED_TO"} :
          /\ x[1] # x[2]
          /\ isValidRelationship(x[3], Mentioned[x[1]].type, Mentioned[x[2]].type)}}

InitRelated ==
  \E n \in 0..MaxRelationships :
    \E relationships \in [1..n -> validRelationships] :
      /\ \A i, j \in 1..n : i # j => relationships[i] # relationships[j]
      /\ embedder = DefaultModel
      /\ vectorStore = NoStore
      /\ faiss_store = NoStore
      /\ entityVectorStore = NoStore
      /\ entity_faiss_store = NoStore
      /\ db = storeExtraction(
                [EmptyDb EXCEPT
                   !.documents = {[id |-> 1, source |-> "/a.pdf",
                                   embedding_model |-> DefaultModel]},
                   !.chunks = {[id |-> 1, document_id |-> 1, chunk_index |-> 0]},
                   !.seq = [documents |-> 1, chunks |-> 1,
                            entities |-> 0, relationships |-> 0]],
                1, [ok |-> TRUE, entities |-> Mentioned,
                    relationships |-> relationships])
      /\ documents_db = db
      /\ server = ServerStarted
      /\ otherWindow = ClosedWindow
      /\ tasks = [t \in TaskIds |-> IdleTask]
      /\ ret = NoRet
      /\ calls = MaxCalls - 1
      /\ called = {"ingest", "build_graph"}
      /\ isExtracting = FALSE
      /\ shouldStopExtraction = FALSE

FindRelatedEntities ==
  \E entityIds \in SUBSET {e.id : e \in db.entities}, maxRelated \in RelatedLimits :
    \E order \in Orderings(relatedRows(db, entityIds)) :
      /\ calls < MaxCalls
      /\ calls' = calls + 1
      /\ ret' = [NoRet EXCEPT
                   !.op = "findRelatedEntities", !.result = "ok",
                   !.entityIds = entityIds, !.maxRelated = maxRelated,
                   !.results = findRelatedEntities(db, entityIds, maxRelated, order)]
      /\ UNCHANGED <<embedder, vectorStore, faiss_store, entityVectorStore,
                     entity_faiss_store, db, documents_db, otherWindow, server, tasks,
                     called, isExtracting, shouldStopExtraction>>

NextRelated == FindRelatedEntities

SpecRelated == InitRelated /\ [][NextRelated]_vars

\* -------------------------------------------------------- query rewriting
\* String.prototype.trim
RECURSIVE trim(_)
trim(text) ==
  IF text = <<>> THEN text
  ELSE IF text[1] = " " THEN trim(Tail(text))
  ELSE IF text[Len(text)] = " " THEN trim(SubSeq(text, 1, Len(text) - 1))
  ELSE text

\* .filter(word => word.length >= 3)
RECURSIVE minThreeChars(_)
minThreeChars(words) ==
  IF words = <<>> THEN <<>>
  ELSE (IF Len(words[1]) >= 3 THEN <<words[1]>> ELSE <<>>)
       \o minThreeChars(Tail(words))

\* .filter((word, index, arr) => arr.indexOf(word) === index)
firstOccurrences(words) ==
  LET kept == {i \in DOMAIN words : \A j \in 1..(i - 1) : words[j] # words[i]}
      RECURSIVE from(_)
      from(i) == IF i > Len(words) THEN <<>>
                 ELSE (IF i \in kept THEN <<words[i]>> ELSE <<>>) \o from(i + 1)
  IN from(1)

\* keywords.join(' ')
RECURSIVE join(_)
join(words) ==
  IF words = <<>> THEN <<>>
  ELSE IF Len(words) = 1 THEN words[1]
  ELSE words[1] \o <<" ">> \o join(Tail(words))

\* preload.js:917-997. reply is what the fetch of /api/generate ends with:
\* it throws ("error"), answers with a status that is not ok ("notOk"), or
\* answers with data.response (replies of models that fill data.thinking
\* and leave data.response empty are not among the inputs).
rewriteQueryWithLLM(query, reply) ==
  IF reply.status # "ok" THEN query
  ELSE IF Len(trim(reply.response)) < 3 THEN query
  ELSE join(firstOccurrences(minThreeChars(
              split(toLowerCase(trim(reply.response)), 1, <<>>))))

\* the words a model answers with, and its answers: up to MaxWords of them,
\* separated by blanks, with or without a blank in front
Words == {<<"a">>, <<"a", "b">>, <<"a", "b", "a">>, <<"A", "b", "a">>,
          <<"K", "a", "n", "t">>}
MaxWords == 3
Responses ==
  {join(words) : words \in UNION {[1..n -> Words] : n \in 0..MaxWords}}
  \cup {<<" ">> \o join(words) : words \in UNION {[1..n -> Words] : n \in 1..2}}
Replies ==
  {[status |-> status, response |-> IF status = "ok" THEN response ELSE <<>>] :
     status \in {"ok", "notOk", "error"}, response \in Responses}

\* preload.js:1000-1031 with a chat model: the query is rewritten, then the
\* keyword search runs on what the rewriting returned
SearchFromStoreFullText ==
  \E query \in {<<"a">>, <<"K", "a", "n", "t", " ", "a">>}, k \in Limits,
     reply \in Replies :
    /\ calls < MaxCalls
    /\ calls' = calls + 1
    /\ called' = called \cup {"search"}
    /\ ret' = [NoRet EXCEPT
                 !.op = "searchFromStoreFullText", !.result = "ok",
                 !.query = query, !.k = k, !.response = reply.response,
                 !.searchQuery = rewriteQueryWithLLM(query, reply),
                 !.results = ftsResultsToDocuments(
                               fullTextSearch(db, rewriteQueryWithLLM(query, reply),
                                              k))]
    /\ UNCHANGED <<embedder, vectorStore, faiss_store, entityVectorStore,
                   entity_faiss_store, db, documents_db, otherWindow, server, tasks,
                   isExtracting, shouldStopExtraction>>

NextRewrite == SearchFromStoreFullText

\* the two documents of the keyword search, with these chunk texts
RewriteContents == <<<<"a", "b", "a">>, <<"a">>, <<"b">>, <<"a", " ", "A">>>>
InitRewrite == InitKeyword /\ \A c \in db.chunks : c.content = RewriteContents[c.id]

SpecRewrite == InitRewrite /\ [][NextRewrite]_vars

\* ---------------------------------------------------- ontology validation
\* renderer.js:1383-1395: an entity without name or type (the empty string
\* here) or of a type outside ENTITY_TYPES is left out
RECURSIVE validEntities(_)
validEntities(entities) ==
  IF entities = <<>> THEN <<>>
  ELSE (IF /\ entities[1].name # "" /\ entities[1].type # ""
           /\ entities[1].type \in ENTITY_TYPES
        THEN <<entities[1]>> ELSE <<>>)
       \o validEntities(Tail(entities))

\* renderer.js:1398-1402: entityMap from name to type, a later entity of
\* the same name replacing the earlier one
typeOfName(entities, name) ==
  LET named == {i \in DOMAIN entities : entities[i].name = name}
  IN IF named = {} THEN ""
     ELSE entities[CHOOSE i \in named : \A j \in named : j <= i].type

\* renderer.js:1405-1432
RECURSIVE keepValidRelationships(_, _)
keepValidRelationships(relationships, entities) ==
  IF relationships = <<>> THEN <<>>
  ELSE LET rel == relationships[1]
       IN (IF /\ rel.source # "" /\ rel.target # "" /\ rel.type # ""
              /\ rel.type \in RELATIONSHIP_TYPES
              /\ typeOfName(entities, rel.source) # ""
              /\ typeOfName(entities, rel.target) # ""
              /\ isValidRelationship(rel.type, typeOfName(entities, rel.source),
                                     typeOfName(entities, rel.target))
           THEN <<rel>> ELSE <<>>)
          \o keepValidRelationships(Tail(relationships), entities)

\* renderer.js:1372-1438, from the parsed JSON on: result has its two arrays
parseExtractionResult(result) ==
  [ok |-> TRUE, entities |-> validEntities(result.entities),
   relationships |-> keepValidRelationships(result.relationships,
                                            validEntities(result.entities))]

\* what the chat model may name in a chunk: entities inside and outside the
\* ontology, one without a name, one name under two types; a relationship
\* between names it listed or did not list, of a type inside or outside the
\* ontology
LLMEntities ==
  {Kant, Groundwork, [name |-> "Kant", type |-> "TOPIC"],
   [name |-> "Hume", type |-> "PHILOSOPHER"], [name |-> "", type |-> "PERSON"]}
LLMRelationships ==
  {[source |-> source, target |-> target, type |-> type] :
     source \in {"Kant", "Groundwork", "Hume"},
     target \in {"Kant", "Groundwork", "Hume"},
     type \in {"AUTHORED", "RELATED_TO", "CITES", "INFLUENCED"}}
MaxLLMEntities == 3
LLMOutputs ==
  {[entities |-> entities, relationships |-> relationships] :
     entities \in UNION {[1..n -> LLMEntities] : n \in 0..MaxLLMEntities},
     relationships \in UNION {[1..n -> LLMRelationships] : n \in 0..1}}

\* /a.pdf with two chunks; an earlier build found Kant in chunk 1 and the
\* model's answer for chunk 2 could not be parsed
InitOntology ==
  /\ embedder = DefaultModel
  /\ vectorStore = NoStore
  /\ faiss_store = NoStore
  /\ entityVectorStore = NoStore
  /\ entity_faiss_store = NoStore
  /\ db = storeExtraction(
            [EmptyDb EXCEPT
               !.documents = {[id |-> 1, source |-> "/a.pdf",
                               embedding_model |-> DefaultModel]},
               !.chunks = {[id |-> i, document_id |-> 1, chunk_index |-> i - 1] :
                             i \in 1..2},
               !.seq = [documents |-> 1, chunks |-> 2,
                        entities |-> 0, relationships |-> 0]],
            1, [ok |-> TRUE, entities |-> <<Kant>>, relationships |-> <<>>])
  /\ documents_db = db
  /\ server = ServerStarted
  /\ otherWindow = ClosedWindow
  /\ tasks = [t \in TaskIds |-> IdleTask]
  /\ ret = NoRet
  /\ calls = MaxCalls - 1
  /\ called = {"ingest", "build_graph"}
  /\ isExtracting = FALSE
  /\ shouldStopExtraction = FALSE

\* preload.js:396-412 for one chunk: extractFromChunk (renderer.js:1452-1474),
\* then storeExtraction with its db.save()
ExtractFromChunk ==
  \E chunkId \in {c.id : c \in db.chunks}, llmOutput \in LLMOutputs :
    /\ calls < MaxCalls
    /\ calls' = calls + 1
    /\ db' = storeExtraction(db, chunkId, parseExtractionResult(llmOutput))
    /\ documents_db' = db'
    /\ ret' = [NoRet EXCEPT !.op = "extractFromChunk", !.result = "ok",
                            !.chunkId = chunkId, !.llmOutput = llmOutput]
    /\ UNCHANGED <<embedder, vectorStore, faiss_store, entityVectorStore,
                   entity_faiss_store, otherWindow, server, tasks, called,
                   isExtracting, shouldStopExtraction>>

NextOntology == ExtractFromChunk

SpecOntology == InitOntology /\ [][NextOntology]_vars

\* ------------------------------------------------------------------ claims
\* The chunk vector index as the next operation finds it: the store in
\* memory, or the directory it would be loaded from.
ChunkIndex == IF vectorStore.present THEN vectorStore ELSE faiss_store

ChunkRowIds == {c.id : c \in db.chunks}
VectorsOf(id) == {x \in ChunkIndex.docs : x.chunk_id = id}
Stores == {vectorStore, faiss_store, entityVectorStore, entity_faiss_store}
Unchanged == UNCHANGED <<embedder, vectorStore, faiss_store, entityVectorStore,
                         entity_faiss_store, db, documents_db>>

\* t's call returns or throws in this step
Completes(t) == tasks[t].pc # "idle" /\ tasks'[t].pc = "idle"

\* C1 (I1): after any sequence of ingest, delete, set_embedding_model,
\* build_graph and 'embed-model-changed' events, every stored chunk vector
\* and every stored entity vector was produced by the active embedding model.
C1_Ops == {"ingest", "delete", "setEmbedderModel", "build_graph",
           "embed-model-changed"}
C1_EveryVectorByActiveModel ==
  (Idle /\ called \subseteq C1_Ops) =>
     \A store \in Stores : \A x \in store.docs :
        normalizeModelName(x.by) = normalizeModelName(embedder)

\* C2: once two concurrently running operations out of ingest, re-ingest,
\* delete and set_embedding_model have both completed, every chunk row has
\* exactly one chunk vector, every chunk vector refers to an existing chunk
\* row, and there is at most one document for a source and model.
C2_Ops == {"ingest", "delete", "setEmbedderModel"}
C2_ConsistentAfterConcurrentOps ==
  (Idle /\ called \subseteq C2_Ops) =>
     /\ \A id \in ChunkRowIds : Cardinality(VectorsOf(id)) = 1
     /\ \A x \in ChunkIndex.docs : x.chunk_id \in ChunkRowIds
     /\ \A x, y \in db.documents :
          (x.source = y.source /\ x.embedding_model = y.embedding_model) => x = y

\* C3 (I3): after every completed ingest, re-ingest, delete,
\* set_embedding_model or search, in any sequential order, a chunk has its
\* text row and its vector, or neither.
C3_Ops == {"ingest", "delete", "setEmbedderModel", "search"}
C3_RowAndVectorOrNeither ==
  (Idle /\ ret.op \in C3_Ops /\ called \subseteq C3_Ops) =>
     \A id \in 1..db.seq.chunks : (id \in ChunkRowIds) <=> (VectorsOf(id) # {})

\* C4 (I2): after any sequence of ingest, re-ingest, delete, build_graph and
\* set_embedding_model, every chunk row belongs to an existing document,
\* every mention references an existing chunk and an existing entity or
\* relationship, and every relationship references two existing entities.
C4_Ops == {"ingest", "delete", "build_graph", "setEmbedderModel"}
C4_ReferentialIntegrity ==
  (Idle /\ called \subseteq C4_Ops) =>
     LET documentIds == {x.id : x \in db.documents}
         entityIds == {e.id : e \in db.entities}
         relationshipIds == {r.id : r \in db.relationships}
     IN /\ \A c \in db.chunks : c.document_id \in documentIds
        /\ \A m \in db.entity_mentions :
             m.chunk_id \in ChunkRowIds /\ m.entity_id \in entityIds
        /\ \A m \in db.relationship_mentions :
             m.chunk_id \in ChunkRowIds /\ m.relationship_id \in relationshipIds
        /\ \A r \in db.relationships :
             r.source_entity_id \in entityIds /\ r.target_entity_id \in entityIds

\* C5: an ingest that fails after it has written rows leaves none of its
\* rows or vectors visible, and leaves the documents, chunks and vectors of
\* every other source as they were.
OtherDocuments(d, source) == {x \in d.documents : x.source # source}
OtherChunks(d, source) ==
  {c \in d.chunks : c.document_id \in {x.id : x \in OtherDocuments(d, source)}}
OtherVectorIds(store, source) ==
  {x.chunk_id : x \in {y \in store.docs : y.source # source}}
C5_FailedIngestIsAtomic ==
  [][\A t \in TaskIds :
       (/\ Completes(t)
        /\ tasks[t].op = "ingest"
        /\ tasks[t].chunkIds # {}
        /\ ret'.result # "ok")
       => /\ \A c \in db'.chunks : c.id \notin tasks[t].chunkIds
          /\ \A x \in vectorStore'.docs \cup faiss_store'.docs :
               x.chunk_id \notin tasks[t].chunkIds
          /\ OtherDocuments(db', tasks[t].source) = OtherDocuments(db, tasks[t].source)
          /\ OtherChunks(db', tasks[t].source) = OtherChunks(db, tasks[t].source)
          /\ OtherVectorIds(ChunkIndex', tasks[t].source)
               = OtherVectorIds(ChunkIndex, tasks[t].source)]_vars

\* C6: after a source is ingested and then ingested again under the same
\* model with n2 chunks, the store holds exactly one document for the source,
\* with exactly n2 chunk rows and exactly n2 chunk vectors.
C6_ReingestReplaces ==
  (ret.op = "ingest" /\ ret.result = "ok" /\ ret.existed /\ called = {"ingest"}) =>
     LET mine == {x \in db.documents : /\ x.source = ret.source
                                       /\ x.embedding_model = ret.model}
     IN /\ Cardinality(mine) = 1
        /\ Cardinality({c \in db.chunks : c.document_id \in {x.id : x \in mine}})
             = ret.n
        /\ Cardinality({x \in ChunkIndex.docs : x.source = ret.source}) = ret.n

\* C7: set_embedding_model(name, force=false), called when the models on the
\* existing vectors are a non-empty set without name, returns the
\* confirmation-required result and changes no state.
ExistingVectorModels == {x.embeddingModel : x \in vectorStore.docs \cup faiss_store.docs}
C7_UnforcedSwitchAsksFirst ==
  [][\A t \in TaskIds :
       (/\ Completes(t)
        /\ tasks[t].op = "setEmbedderModel"
        /\ ~tasks[t].force
        /\ normalizeModelName(embedder) # normalizeModelName(tasks[t].name)
        /\ ExistingVectorModels # {}
        /\ tasks[t].name \notin ExistingVectorModels)
       => /\ ret'.result = "confirmationRequired"
          /\ ret'.existingModels # {}
          /\ Unchanged]_vars

C9_ForcedSwitchEmptiesStore ==
  (ret.op = "setEmbedderModel" /\ ret.force /\ ret.result # "none") =>
     /\ getStoredSourcesSeg(IdleTask, Cur).ret.sources = {}
     /\ ~vectorStore.present
     /\ ~faiss_store.present
     /\ embedder = ret.name

\* the forced switch is the third call, after an ingest and a graph build
\* that left entity vectors: it had a document and its vectors to clear
C9_Witness ==
  /\ ret.op = "setEmbedderModel" /\ ret.force /\ ret.result = "success"
  /\ calls = 3 /\ called = {"ingest", "build_graph", "setEmbedderModel"}
  /\ entity_faiss_store.present
  /\ db.seq.chunks > 0

\* C10: the forced switch also resets the graph: after
\* set_embedding_model(m, force=true) the entity vector index directory is
\* gone, all mentions are gone, and no entity or relationship remains.
C10_SwitchResetsGraph ==
  (ret.op = "setEmbedderModel" /\ ret.force /\ ret.result = "success") =>
     /\ ~entity_faiss_store.present
     /\ db.entity_mentions = {}
     /\ db.relationship_mentions = {}
     /\ db.entities = {}
     /\ db.relationships = {}

\* C11 (P2): after delete(source) completes, list_sources() does not contain
\* source, also when the source was stored under several embedding models.
C11_DeletedSourceNotListed ==
  (ret.op = "delete" /\ ret.result \in {"ok", "not_found"}) =>
     ret.source \notin getStoredSourcesSeg(IdleTask, Cur).ret.sources

\* the delete was the fourth of ingest, 'embed-model-changed', ingest, delete:
\* both document rows are gone and their two chunk rows show that one source
\* had a document under each of two models
C11_Witness ==
  /\ ret.op = "delete" /\ ret.result = "ok"
  /\ calls = 4 /\ called = {"ingest", "embed-model-changed", "delete"}
  /\ db.documents = {}
  /\ {c.document_id : c \in db.chunks} = {1, 2}

\* C12 (I4/P7): after a delete-document operation completes, every entity has
\* an entity mention and every relationship a relationship mention, and what
\* only the deleted document's chunks mentioned is gone: the mention that
\* keeps an entity or relationship is one by a chunk of a stored document.
StoredChunkIds ==
  {c.id : c \in {x \in db.chunks : x.document_id \in {y.id : y \in db.documents}}}
C12_NoOrphansAfterDelete ==
  (ret.op = "delete" /\ ret.result = "ok") =>
     /\ \A e \in db.entities :
          \E m \in db.entity_mentions :
             m.entity_id = e.id /\ m.chunk_id \in StoredChunkIds
     /\ \A r \in db.relationships :
          \E m \in db.relationship_mentions :
             m.relationship_id = r.id /\ m.chunk_id \in StoredChunkIds

\* C13: the active embedding model is changed only under exclusive access:
\* set_embedding_model never takes effect (changes the embedder or clears
\* stores) while an ingest, a graph build or a retrieval is in flight.
C13_ModelChangeIsExclusive ==
  [][\A t \in TaskIds :
       (Completes(t) /\ tasks[t].op = "setEmbedderModel" /\ ~Unchanged)
       => \A u \in TaskIds \ {t} :
            tasks[u].op \notin {"ingest", "build_graph", "search"}]_vars

\* C14 (P6): build_graph run a second time on the same document leaves the
\* entity, relationship and mention counts as after the first run, and the
\* second run reports every chunk as skipped, also the chunks whose first
\* extraction failed or produced no entity.
GraphCounts(d) ==
  <<Cardinality(d.entities), Cardinality(d.relationships),
    Cardinality(d.entity_mentions), Cardinality(d.relationship_mentions)>>
C14_BuildGraphIdempotent ==
  [][\A t \in TaskIds :
       (tasks[t].op = "build_graph" /\ tasks[t].again /\ tasks[t].pc # "idle")
       => /\ GraphCounts(db') = GraphCounts(db)
          /\ Completes(t) => ret'.skipped = ret'.n]_vars

\* C15: build_graph honours a cancel signal checked between batches: once
\* cancellation is requested during a build, no later batch of that document
\* is started.
LaterBatchStarts(t) ==
  /\ tasks[t].pc = "extract_batch"
  /\ tasks'[t].pc = "extract_batch"
  /\ tasks'[t].batchIndex > tasks[t].batchIndex
C15_NoBatchAfterCancel ==
  [][\A t \in TaskIds : shouldStopExtraction => ~LaterBatchStarts(t)]_vars

\* ---- C19, C20: keyword search
Tokens == {<<"a">>, <<"b">>, <<"ae">>}
ResultIds(results) == {results[i].id : i \in DOMAIN results}
\* the chunks a search can return: those of a stored document
StoredChunks == {c \in db.chunks : \E x \in db.documents : x.id = c.document_id}
\* the total number of occurrences of the query's tokens in the lowercased
\* content of chunk c
Occurrences(c, query) ==
  score(toLowerCase(c.content), split(toLowerCase(query), 1, <<>>), 1)
\* o ranks ahead of c for the query: higher score, or the same and a lower id
Ahead(o, c, query) ==
  \/ Occurrences(o, query) > Occurrences(c, query)
  \/ Occurrences(o, query) = Occurrences(c, query) /\ o.id < c.id
WithToken(query, t) == query \o <<" ">> \o t
\* the chunks of the last keyword search that the same search with token t
\* added to the query no longer returns
Removed(t) ==
  {c \in StoredChunks :
     /\ c.id \in ResultIds(ret.results)
     /\ c.id \notin ResultIds(fullTextSearch(db, WithToken(ret.query, t), ret.k))}
Matching(query) ==
  likeAny(StoredChunks, split(toLowerCase(query), 1, <<>>))

C20_TopKByOccurrences ==
  ret.op = "fullTextSearch" =>
    LET r == ret.results
    IN /\ Len(r) <= ret.k
       /\ \A i \in DOMAIN r :
             \E c \in StoredChunks :
                c.id = r[i].id /\ r[i].score = Occurrences(c, ret.query)
       /\ \A i, j \in DOMAIN r :
             i < j => \/ r[i].score > r[j].score
                      \/ r[i].score = r[j].score /\ r[i].id < r[j].id
       /\ \A c \in StoredChunks :
             c.id \notin ResultIds(r) =>
               \A i \in DOMAIN r : Occurrences(c, ret.query) <= r[i].score

\* ---- C16, C17, C18: searchFromStore
Searched == ret.op = "searchFromStore"
\* what a strategy contributes: its results, nothing when it raised
Surviving(part) == IF part.failed THEN <<>> ELSE part.results
\* the hybrid merge of what the two chunk strategies contributed
MergedByKey(embeddingHits, fullTextHits, k) ==
  slice(pushUnseen(pushUnseen(<<>>, embeddingHits, 1, Len(embeddingHits) + 1),
                   fullTextHits, 1, 2 * k), k)
SameChunk(a, b) == a.source = b.source /\ a.pageContent = b.pageContent

HybridSearched == Searched /\ ret.mode = "hybrid" /\ ret.useChunkRAG /\ ~ret.useGraphRAG
\* C1 is the best hit of the embedding search, C2 the best of the keyword
\* search, and they are of different sources
BestOfEach ==
  /\ HybridSearched
  /\ ~ret.parts.embedding.failed
  /\ ret.parts.embedding.results # <<>>
  /\ ret.parts.fullText.results # <<>>
  /\ ret.parts.embedding.results[1].source # ret.parts.fullText.results[1].source

Mentioning(name) ==
  {m.chunk_id : m \in {m \in db.entity_mentions :
                         \E e \in db.entities : e.id = m.entity_id /\ e.name = name}}
ChunkY == Mentioning(Korsgaard.name)
ChunkX == Mentioning(Kant.name) \ ChunkY
Annotated(chunkId, name) ==
  \E i \in DOMAIN ret.results :
     /\ ret.results[i].chunk_id = chunkId
     /\ name \in ret.results[i].entity_names

\* C18: a search for "Korsgaard" in embedding mode with graph augmentation,
\* with room for both chunks (k >= 2) and the embedding search succeeding,
\* returns Y annotated with Korsgaard and X annotated with Kant, whichever
\* of X and Y the embedding search returned.
C18_GraphExpansionAnnotatesBoth ==
  /\ Searched
  /\ ret.query = Chars(Korsgaard.name)
  /\ ret.mode = "embedding" /\ ret.useChunkRAG /\ ret.useGraphRAG
  /\ ret.k >= 2
  /\ ~ret.parts.embedding.failed
  => /\ \A Y \in ChunkY : Annotated(Y, Korsgaard.name)
     /\ \A X \in ChunkX : Annotated(X, Kant.name)

\* ---------------------------------------------------------------- C21
\* the document rows of the (source, model) pair an ingest is about
SamePair(d, task) ==
  {x \in d.documents : x.source = task.source /\ x.embedding_model = task.model}
InsertsDocument(t) ==
  tasks[t].pc = "saveChunksToFaiss" /\ tasks'[t].pc # "saveChunksToFaiss"

\* C21: insertDocument is idempotent on (source, model). A call for a pair
\* that has no row creates exactly one row and returns its id with
\* existed = false; a call for a pair that has a row returns that row's id
\* with existed = true and leaves the document rows as they are; after
\* either, the pair has exactly one document row.
C21_InsertDocumentIdempotent ==
  [][\A t \in DOMAIN tasks :
       InsertsDocument(t) =>
         /\ Cardinality(SamePair(db, tasks[t])) <= 1
         /\ Cardinality(SamePair(db', tasks[t])) = 1
         /\ \A x \in SamePair(db', tasks[t]) : x.id = tasks'[t].docId
         /\ tasks'[t].existed = (SamePair(db, tasks[t]) # {})
         /\ tasks'[t].existed => db'.documents = db.documents
         /\ ~tasks'[t].existed =>
              /\ db'.documents = db.documents \cup SamePair(db', tasks[t])
              /\ SamePair(db', tasks[t]) \cap db.documents = {}]_vars

\* a second ingest of a source under the same model has returned: the call
\* found the row of the first and the pair still has one row
C21_Witness ==
  /\ ret.op = "ingest" /\ ret.result = "ok" /\ ret.existed
  /\ Cardinality({x \in db.documents : x.source = ret.source
                                        /\ x.embedding_model = ret.model}) = 1
  /\ Cardinality(db.documents) = 2

\* ---------------------------------------------------------------- C22
\* the document and chunk rows documents.db holds of sources other than the
\* one a call is about
PersistedOfOthers(saved, source) ==
  {x \in saved.documents : x.source # source}
  \cup {c \in saved.chunks :
          \E x \in saved.documents : x.id = c.document_id /\ x.source # source}

\* C22: with two windows operating on the store, no call of either window
\* removes from documents.db a document or chunk row of a source the call
\* is not about: what one window has saved is still there after the other
\* window's save.
C22_SaveKeepsRowsOfOtherWindow ==
  [][PersistedOfOthers(documents_db, ret'.source)
       \subseteq PersistedOfOthers(documents_db', ret'.source)]_vars

\* ---------------------------------------------------------------- C23
\* the chunk rows a database holds of a source
ChunksOfSource(d, source) ==
  {c \in d.chunks :
     \E x \in d.documents : x.id = c.document_id /\ x.source = source}

\* the sources whose ingest has completed
Ingested == Sources \cap called

Restarts == "restart" \notin called /\ "restart" \in called'

\* C23: documents persist across restarts. When the application is started
\* again and no delete was requested before (the model is never switched
\* here), every source whose ingest had completed is listed, has chunk
\* rows, and each of them has its vector in the index loaded from disk.
C23_DocumentsPersistAcrossRestart ==
  [][Restarts /\ "delete" \notin called =>
       \A source \in Ingested :
          /\ source \in getStoredSources(db')
          /\ ChunksOfSource(db', source) # {}
          /\ \A c \in ChunksOfSource(db', source) :
                \E v \in vectorStore'.docs :
                   v.chunk_id = c.id /\ v.source = source]_vars

\* ---------------------------------------------------------------- C24
\* the batch a chunk of the document under extraction belongs to
BatchOf(t, chunkId) ==
  PositionIn(tasks[t].docs, CHOOSE c \in tasks[t].docs : c.id = chunkId)
    \div BATCH_SIZE

\* the extraction calls of a build that have not returned yet
InExtraction(t) ==
  IF tasks[t].pc = "extract_batch" THEN tasks[t].pending ELSE {}

\* every call in flight is for a chunk of the batch the build is at
OneBatchInFlight ==
  \A t \in TaskIds : \A chunkId \in InExtraction(t) :
     BatchOf(t, chunkId) = tasks[t].batchIndex

\* C24: the batches of build_graph are strictly sequential. The extraction
\* calls in flight all belong to one batch, and a later batch starts only
\* in the step in which the last call of the batch before it returns (its
\* extraction stored and saved in that same step): no call of the earlier
\* batch is in flight when a chunk of the next one starts.
C24_BatchesAreSequential ==
  [][/\ OneBatchInFlight
     /\ \A t \in TaskIds :
          LaterBatchStarts(t) =>
            /\ Cardinality(tasks[t].pending) = 1
            /\ tasks[t].pending \cap tasks'[t].pending = {}
            /\ documents_db' = db']_vars

\* the second batch of the long document is in extraction
C24_Witness ==
  /\ tasks[1].pc = "extract_batch"
  /\ tasks[1].batchIndex = 1
  /\ tasks[1].pending = {BATCH_SIZE + 1}
  /\ \A c \in db.chunks :
        c.id <= BATCH_SIZE => c.id \notin tasks[1].pending

\* ---------------------------------------------------------------- C25
\* C25: extraction concurrency is bounded. Whatever the user does in the
\* manage-RAG window (extract a document, stop, extract again), at most
\* BATCH_SIZE extraction-model calls are in flight at any time.
C25_AtMostBatchSizeCallsInFlight ==
  Cardinality(InExtraction(1)) + Cardinality(InExtraction(2)) <= BATCH_SIZE

\* ---------------------------------------------------------------- C26
\* a build of the stored long document is running
Building ==
  /\ tasks[1].op = "build_graph" /\ tasks[1].pc # "idle"
  /\ tasks[1].source = LongDocument.source

\* the build has returned its report, and every chunk of the document was
\* skipped, succeeded or failed, none both succeeded and failed
Reported ==
  /\ ret.op = "build_graph" /\ ret.result = "ok"
  /\ ret.n = Cardinality(LongDocumentChunks)
  /\ ret.successful \cup ret.failed \subseteq LongDocumentChunks
  /\ ret.successful \cap ret.failed = {}
  /\ ret.skipped + Cardinality(ret.successful) + Cardinality(ret.failed) = ret.n

C27_SearchIsReadOnly ==
  [][/\ db' = db
     /\ documents_db' = documents_db
     /\ faiss_store' = faiss_store
     /\ entity_faiss_store' = entity_faiss_store
     /\ embedder' = embedder]_vars

\* C28: in embedding mode every returned result has a chunk row that exists
\* now, and its text is the text stored in that row: a hit without a row is
\* dropped.
EmbeddingSearched ==
  /\ Searched
  /\ ret.mode = "embedding" /\ ret.useChunkRAG /\ ~ret.useGraphRAG
  /\ ~ret.parts.embedding.failed
HasRow(result) ==
  \E c \in StoredChunks : /\ c.id = result.chunk_id
                          /\ c.content = result.pageContent
C28_EmbeddingResultsHaveRows ==
  EmbeddingSearched => \A i \in DOMAIN ret.results : HasRow(ret.results[i])

\* C29: when graph results are combined with the results of a chunk
\* strategy, no two returned entries are for the same chunk, and the entries
\* are in the order of their insertion: chunk results first, then graph
\* results.
RowsFor(entry) ==
  {c \in db.chunks :
     IF entry.chunk_id # 0 THEN c.id = entry.chunk_id
     ELSE /\ c.content = entry.pageContent
          /\ \E x \in db.documents : x.id = c.document_id /\ x.source = entry.source}
ForSameChunk(a, b) == \E c \in db.chunks : RowsFor(a) = {c} /\ RowsFor(b) = {c}
Inserted ==
  (IF ret.mode = "hybrid"
   THEN MergedByKey(Surviving(ret.parts.embedding), Surviving(ret.parts.fullText),
                    ret.k)
   ELSE Surviving(ret.parts.embedding) \o Surviving(ret.parts.fullText))
  \o Surviving(ret.parts.graph)
RECURSIVE keepsOrder(_, _, _, _)
keepsOrder(results, inserted, i, j) ==
  IF i > Len(results) THEN TRUE
  ELSE IF j > Len(inserted) THEN FALSE
  ELSE IF results[i] = inserted[j] THEN keepsOrder(results, inserted, i + 1, j + 1)
  ELSE keepsOrder(results, inserted, i, j + 1)
C29_CombinedResultsOnePerChunk ==
  Searched /\ ret.useChunkRAG /\ ret.useGraphRAG =>
    /\ \A i, j \in DOMAIN ret.results :
          i # j => ~ForSameChunk(ret.results[i], ret.results[j])
    /\ keepsOrder(ret.results, Inserted, 1, 1)

\* C30: neighbor expansion returns at most maxRelated entities, none of them
\* a seed, each joined to a seed by a relationship in either direction; and
\* they are the maxRelated neighbors of the highest score, the score of a
\* neighbor being stored weight times type weight of a relationship that joins
\* it to a seed (all neighbors when there are no more than maxRelated).
JoinedToSeed(e) ==
  {r \in db.relationships :
     \/ r.source_entity_id = e.id /\ r.target_entity_id \in ret.entityIds
     \/ r.target_entity_id = e.id /\ r.source_entity_id \in ret.entityIds}
Neighbors == {e \in db.entities : e.id \notin ret.entityIds /\ JoinedToSeed(e) # {}}
NeighborScore(e) ==
  CHOOSE best \in {weighted_score(r) : r \in JoinedToSeed(e)} :
    \A other \in {weighted_score(r) : r \in JoinedToSeed(e)} : best >= other
Expanded == ret.op = "findRelatedEntities"
RelatedReturned == {e \in db.entities : e.id \in idsOf(ret.results)}
C30_RelatedAreTopNeighbors ==
  Expanded =>
    /\ Len(ret.results) <= ret.maxRelated
    /\ RelatedReturned \subseteq Neighbors
    /\ Cardinality(RelatedReturned) =
         Min({ret.maxRelated, Cardinality(Neighbors)})
    /\ \A e \in RelatedReturned, other \in Neighbors \ RelatedReturned :
          NeighborScore(e) >= NeighborScore(other)

\* C31: after build_graph completes, every entity has exactly one vector in
\* the entity vector index for the active model and exactly one
\* entity_embeddings record for it, also after repeated runs and after a
\* failure part-way through the entity embedding.
EntityIndex ==
  IF entityVectorStore.present THEN entityVectorStore ELSE entity_faiss_store
VectorsOfEntity(e) ==
  {x \in EntityIndex.docs : x.entity_id = e.id /\ x.embedding_model = embedder}
RecordsOfEntity(e) ==
  {r \in db.entity_embeddings : r.entity_id = e.id /\ r.embedding_model = embedder}
BuildCompleted == ret.op = "build_graph" /\ ret.result = "ok"
C31_OneVectorAndRecordPerEntity ==
  BuildCompleted =>
    \A e \in db.entities : /\ Cardinality(VectorsOfEntity(e)) = 1
                           /\ Cardinality(RecordsOfEntity(e)) = 1

\* C32: an entity's vector is deleted with the entity: when a delete takes
\* away the only document whose chunks mention an entity, the orphan cleanup
\* that follows leaves no entry for that entity id in the entity vector index
\* and none in the entity_embeddings table.
MentionedOnlyIn(e, source) ==
  \A m \in {x \in db.entity_mentions : x.entity_id = e.id} :
     \E c \in db.chunks, x \in db.documents :
        /\ c.id = m.chunk_id
        /\ x.id = c.document_id
        /\ x.source = source
Deletes(t) == Completes(t) /\ tasks[t].op = "delete" /\ ret'.result = "ok"
C32_EntityVectorDeletedWithEntity ==
  [][\A t \in TaskIds :
       Deletes(t) =>
         \A e \in db.entities :
            MentionedOnlyIn(e, tasks[t].source) =>
              /\ \A x \in entity_faiss_store'.docs \cup entityVectorStore'.docs :
                    x.entity_id # e.id
              /\ \A r \in db'.entity_embeddings : r.entity_id # e.id]_vars

\* C33: the query the keyword search runs on is the model's output in lower
\* case, without the tokens shorter than 3 characters and without repeated
\* tokens; when that cleaned output has fewer than 3 characters in total, or
\* the rewrite call failed, it is the original query.
Rewritten == ret.op = "searchFromStoreFullText"
RewriteFailed == ret.response = <<>>
Cleaned(response) ==
  join(firstOccurrences(minThreeChars(split(toLowerCase(response), 1, <<>>))))
C33_RewriteFallsBackWhenCleanedIsShort ==
  Rewritten =>
    ret.searchQuery = IF RewriteFailed \/ Len(Cleaned(ret.response)) < 3
                      THEN ret.query
                      ELSE Cleaned(ret.response)

\* C34: every entity and every relationship that extraction stores has a
\* type of the ontology; every stored relationship joins two entities named
\* in a chunk that mentions the relationship, and their types are a pair the
\* relationship type permits; an answer with items that violate this is
\* stored without them, and the chunk does not fail.
Permitted(r) ==
  \E source, target \in db.entities :
     /\ source.id = r.source_entity_id
     /\ target.id = r.target_entity_id
     /\ source.type \in VALID_RELATIONSHIP_PATTERNS(r.relationship_type).source
     /\ target.type \in VALID_RELATIONSHIP_PATTERNS(r.relationship_type).target
FromOneChunk(r) ==
  /\ \E m \in db.relationship_mentions : m.relationship_id = r.id
  /\ \A m \in {x \in db.relationship_mentions : x.relationship_id = r.id} :
        /\ [entity_id |-> r.source_entity_id, chunk_id |-> m.chunk_id]
             \in db.entity_mentions
        /\ [entity_id |-> r.target_entity_id, chunk_id |-> m.chunk_id]
             \in db.entity_mentions
InOntology(entity) ==
  entity.name # "" /\ entity.type \in ENTITY_TYPES
Extracted == ret.op = "extractFromChunk"
C34_StoredGraphIsInOntology ==
  /\ \A e \in db.entities : e.type \in ENTITY_TYPES
  /\ \A r \in db.relationships :
        /\ r.relationship_type \in RELATIONSHIP_TYPES
        /\ Permitted(r)
        /\ FromOneChunk(r)
  /\ Extracted =>
        \A i \in DOMAIN ret.llmOutput.entities :
           InOntology(ret.llmOutput.entities[i]) =>
             \E e \in db.entities :
                /\ e.name = ret.llmOutput.entities[i].name
                /\ e.type = ret.llmOutput.entities[i].type
                /\ [entity_id |-> e.id, chunk_id |-> ret.chunkId]
                     \in db.entity_mentions
\* the model named Hume as PHILOSOPHER and a relationship the ontology
\* permits between two entities it named: the relationship is stored
C34_Witness ==
  /\ Extracted
  /\ \E i \in DOMAIN ret.llmOutput.entities :
        ~InOntology(ret.llmOutput.entities[i])
  /\ \E m \in db.relationship_mentions : m.chunk_id = ret.chunkId

\* C35: setEmbedderModel(name, false), called while another model is active
\* and every stored vector was embedded with name, leaves the documents, the
\* chunks and the chunk vectors as they are.
SwitchesBack(t) ==
  /\ Completes(t)
  /\ tasks[t].op = "setEmbedderModel" /\ ~tasks[t].force
  /\ normalizeModelName(embedder) # normalizeModelName(tasks[t].name)
  /\ ChunkIndex.docs # {}
  /\ \A x \in ChunkIndex.docs : x.embeddingModel = tasks[t].name
C35_UnforcedSwitchBackKeepsDocuments ==
  [][\A t \in TaskIds :
       SwitchesBack(t) =>
         /\ db'.documents = db.documents
         /\ db'.chunks = db.chunks
         /\ {x.chunk_id : x \in ChunkIndex'.docs} = {x.chunk_id : x \in ChunkIndex.docs}]_vars

\* C37: when build_graph completes on a document and every extraction call
\* of the build succeeded, the progress of that source has processedChunks
\* equal to totalChunks, so that extract-all does not select it (its
\* percentage is 100).
AllExtractionsSucceeded(t) ==
  /\ Completes(t)
  /\ tasks[t].op = "build_graph"
  /\ ret'.result = "ok"
  /\ ret'.failed = {}
C37_CompletedBuildIsFullyProcessed ==
  [][\A t \in TaskIds :
       AllExtractionsSucceeded(t) =>
         LET progress == getGraphRAGProgress(db', tasks[t].source)
         IN /\ progress.processedChunks = progress.totalChunks
            /\ progress.percentage = 100]_vars

\* The half of C37 that is a bound: at all times the processed chunks of a
\* source are between 0 and its total chunks.
ProgressWithinBounds ==
  \A source \in Sources :
    LET progress == getGraphRAGProgress(db, source)
    IN /\ 0 <= progress.processedChunks
       /\ progress.processedChunks <= progress.totalChunks

\* C36: once the user has pressed stop during a batch of
\* extractAllUnprocessed, the batch starts the extraction of no further
\* document, whatever the user does afterwards.
BatchStartsDocument(t) ==
  /\ tasks[t].isBatchMode
  /\ tasks'[t].isBatchMode
  /\ tasks'[t].i > tasks[t].i
C36_NoDocumentStartsAfterStop ==
  [][\A t \in TaskIds : tasks[t].stopRequested => ~BatchStartsDocument(t)]_vars

\* C38: startServer tries port 3000 and, after each address-in-use error,
\* the next port, in at most 11 attempts; getPort() returns null until a
\* listen succeeded and from then on the port that was bound; once all
\* attempts have failed or another error has occurred, nothing is tried
\* again and the port stays null.
MaxAttempts == 11
StartUpInv ==
  /\ server.attempts \in 1..MaxAttempts
  /\ server.port = PORT + server.attempts - 1
  /\ server.serverPort = server.bound
  /\ server.bound # null <=> server.pc = "listening"
  /\ server.bound # null => server.bound = server.port /\ server.bound \notin server.inUse
  /\ ret.op = "getPort" => ret.port \in {null, server.bound}
StartUpStep ==
  /\ (server.pc = "listen" /\ server'.pc = "listen" /\ server'.attempts # server.attempts)
       => /\ server.port \in server.inUse
          /\ server'.attempts = server.attempts + 1
  /\ server.pc \in {"failed", "listening"}
       => /\ server'.pc = server.pc
          /\ server'.attempts = server.attempts
          /\ server'.serverPort = server.serverPort
  /\ ret'.op = "getPort" /\ ret' # ret => ret'.port = server.bound
====
